---- MODULE Spec2Model ----
(***************************************************************************)
(* The session/consensus subsystem of the group restaurant picker:         *)
(*   - SessionService (src/src/services/sessionService.ts): the session    *)
(*     document rooms/<code>, its users and events sub-collections, the    *)
(*     vote ledger (castVote), the swipe ledger (swipeRestaurant) and the  *)
(*     winner resolver (getGroupWinner);                                   *)
(*   - LobbyScreen.getMergedPreferences                                    *)
(*     (src/src/components/LobbyScreen.tsx): the preference merge.         *)
(*                                                                         *)
(* The specifications share the variables:                                 *)
(*   Spec       joinSession and castVote, run one after another;           *)
(*   SpecSwipes swipeRestaurant, saveRestaurants and getGroupWinner with   *)
(*              its call of the Tie-Break Service (FairSwipes adds the     *)
(*              fairness of the event loop);                               *)
(*   SpecMerge  getMergedPreferences applied to bounded vote ledgers;      *)
(*   SpecSteps  joinSession, castVote and lockPreferences of two clients,  *)
(*              each call split at its awaits and the steps interleaved;   *)
(*   SpecWinner getGroupWinner and setWinner on a swiped session           *)
(*              (FairWinner adds the fairness of the event loop).          *)
(*                                                                         *)
(* A UserVote / swipe entry is {userId, userName, timestamp}.  No modelled *)
(* operation reads the timestamp (Date.now()) of an entry, so entries are  *)
(* modelled as [userId, userName].                                         *)
(***************************************************************************)
EXTENDS Integers, Sequences, FiniteSets, TLC

\* ------------------------------------------------------------------ bounds
\* Cap on the length of the events sub-collection (it grows without bound).
MaxActivities == 4
\* Cap on the length of one restaurant's likes list (it can grow without
\* bound, see swipeRestaurant).
MaxLikesLen == 3

\* SpecMerge: most votes one option holds, and most votes one category holds.
MaxPerOption == 3
MaxVoters == 6

\* SpecSteps: most calls one client starts.
MaxCalls == 2

\* ------------------------------------------------------------- input sets
\* Participants of the store specifications (user ids).
Users == {"alice", "bob", "carol"}
\* Participants that swipe in SpecSwipes.
Swipers == {"alice", "bob"}
\* SessionUser.name / user.name of a user id.
UserName(u) ==
  CASE u = "alice" -> "Alice"
    [] u = "bob" -> "Bob"
    [] u = "carol" -> "Carol"
    [] OTHER -> "Dave"

\* The five preference categories (the keys of SessionVotes).
Categories == {"budget", "cuisine", "vibe", "dietary", "distance"}

\* The (category, value) pairs castVote is called with in Spec.
CastInputs ==
  { <<"cuisine", "Italian">>, <<"cuisine", "Japanese">>,
    <<"budget", "$$">>, <<"budget", "$$$">> }

\* JavaScript's undefined / null.
Undefined == "undefined"
Null == "null"

\* The restaurant ids users swipe on.
RestaurantIds == {"R1", "R2"}
\* The lists saveRestaurants is called with (restaurants, by id).
RestaurantLists == { <<"R1", "R2">>, <<"R1">> }
\* The ids the Tie-Break Service may name: the candidates and a foreign id.
ServiceIds == RestaurantIds \cup {"R9"}

\* ------------------------------------------------------------------ state
VARIABLES
  exists,            \* rooms/<code> exists
  ownerId,           \* SessionData.ownerId
  users,             \* SessionData.users (ids of the map's keys)
  votes,             \* SessionData.votes: category -> (option -> UserVote[])
  locked,            \* SessionData.locked
  swipes,            \* data.swipes: restaurantId -> {likes, dislikes}
  sharedRestaurants, \* SessionData.sharedRestaurants (sequence of ids)
  userDocs,          \* rooms/<code>/users sub-collection (ids)
  activities,        \* rooms/<code>/events sub-collection, in append order
  lastSwipe,         \* direction of each user's latest swipeRestaurant call per restaurant
  gwPc,              \* getGroupWinner: "idle", "awaitingService", "returned"
  gwWinners,         \* getGroupWinner's local winners
  gwMaxLikes,        \* getGroupWinner's local maxLikes
  gwServiceCalled,   \* apiService.resolveTie was invoked by this call
  resolution,        \* what the resolveTie call produced
  gwResult,          \* the value getGroupWinner returned
  userVotes,         \* LobbyScreen state userVotes (copy of data.votes)
  selection,         \* LobbyScreen state budget, cuisine, vibe, dietary, distance
  merged,            \* <<value>> of the last getMergedPreferences call, <<>> before it
  winnerId,          \* SessionData.winnerId
  winningReason,     \* SessionData.winningReason
  consensus,         \* SessionData.consensus: <<preferences>>, <<>> when missing
  pc,                \* each client's position in the sessionService call it runs
  local,             \* the local variables of that call
  calls,             \* the number of calls each client has started
  finishedUsers,     \* SessionData.finishedUsers (sequence of ids)
  localActivities,   \* LobbyScreen state activities
  localLocked,       \* LobbyScreen state locked
  onlineUsers,       \* LobbyScreen state onlineUsers (ids)
  pushed,            \* per stream, <<argument>> of the latest callback whose
                     \* result no later local action has touched, else <<>>
  leavePc,           \* each client's position in the leaveSession call of its cleanup
  leaveLocal,        \* the local variables of that call
  pc2,               \* each client's position in a second castVote call, made
                     \* while its other call may be in flight
  local2,            \* the local variables of that call
  appPreferences,    \* App state preferences, which the swipe screen gets
  currentScreen,     \* App state currentScreen
  prefResult,        \* <<analysis>>: a response of the extraction service the
                     \* chat has not processed yet, else <<>>
  rooms,             \* rooms/<code> of the hosted rooms: hostId, or NoRoom
  manifest,          \* the manifest of the room the participants are in
  events,            \* the documents of that room's events collection
  hostPc,            \* the position of the host in handleHostSession
  hostCode,          \* its local code
  attempts,          \* its local attempts
  roomSnap,          \* its local roomSnap.exists()
  checked,           \* per code, what the existence checks of the running
                     \* call have found in the store: "absent", "exists",
                     \* or "unchecked"
  hostError          \* Home state error

storeVars == <<exists, ownerId, users, votes, locked, swipes,
               sharedRestaurants, userDocs, activities, lastSwipe>>
gwVars == <<gwPc, gwWinners, gwMaxLikes, gwServiceCalled, resolution, gwResult>>
lobbyVars == <<userVotes, selection, merged>>
docVars == <<winnerId, winningReason, consensus, finishedUsers>>
viewVars == <<localActivities, localLocked, onlineUsers, pushed>>
leaveVars == <<leavePc, leaveLocal>>
secondVars == <<pc2, local2>>
appVars == <<appPreferences, currentScreen, prefResult>>
roomVars == <<rooms, manifest, events, hostPc, hostCode, attempts, roomSnap, checked,
              hostError>>
clientVars == <<pc, local, calls, viewVars, leaveVars, secondVars, appVars, roomVars>>
vars == <<storeVars, gwVars, lobbyVars, docVars, clientVars>>

\* The votes object joinSession writes at creation.
EmptyVotes == [c \in Categories |-> <<>>]

\* A function with the empty domain ({} in JavaScript).
EmptyObject == <<>>

\* {userId, userName, timestamp: Date.now()}
UserVote(u) == [userId |-> u, userName |-> UserName(u)]

\* LobbyScreen's useState initial values of the five selections.
InitialSelection ==
  [budget |-> "", cuisine |-> "", vibe |-> "", dietary |-> "None",
   distance |-> "2 mi"]

\* The resolveTie call has produced nothing (yet).
NoResolution == [kind |-> "none", winner_id |-> Undefined, reason |-> Undefined]

\* getGroupWinner has returned nothing (yet).
NoResult == [restaurantId |-> Undefined, likeCount |-> 0, reason |-> Undefined]

\* getGroupWinner's "return null".
NullResult == [restaurantId |-> Null, likeCount |-> 0, reason |-> Null]

\* The state before any client has joined: no session document.
StoreInit ==
  /\ exists = FALSE
  /\ ownerId = Undefined
  /\ users = {}
  /\ votes = EmptyVotes
  /\ locked = FALSE
  /\ swipes = EmptyObject
  /\ sharedRestaurants = <<>>
  /\ userDocs = {}
  /\ activities = <<>>
  /\ lastSwipe = [r \in RestaurantIds |-> [u \in Users |-> "none"]]

GwInit ==
  /\ gwPc = "idle"
  /\ gwWinners = {}
  /\ gwMaxLikes = 0
  /\ gwServiceCalled = FALSE
  /\ resolution = NoResolution
  /\ gwResult = NoResult

LobbyInit ==
  /\ userVotes = EmptyVotes
  /\ selection = InitialSelection
  /\ merged = <<>>

\* The fields no write has set yet.
DocInit ==
  /\ winnerId = Undefined
  /\ winningReason = Undefined
  /\ consensus = <<>>
  /\ finishedUsers = <<>>

\* The local variables of a client that runs no call.
NoLocal ==
  [docExists |-> FALSE, dataVotes |-> EmptyVotes, currentUsers |-> {},
   category |-> "", value |-> "", dataSwipes |-> <<>>,
   restaurantId |-> "", direction |-> "", currentFinished |-> <<>>]

\* No callback has run on any of the three streams.
NoPush == [session |-> <<>>, users |-> <<>>, activities |-> <<>>]

\* LobbyScreen's useState initial values: no activities, not locked, nobody
\* online; no snapshot pushed yet.
ViewInit ==
  /\ localActivities = <<>>
  /\ localLocked = FALSE
  /\ onlineUsers = {}
  /\ pushed = NoPush

\* No client runs its cleanup.
LeaveInit ==
  /\ leavePc = [u \in Users |-> "idle"]
  /\ leaveLocal = [u \in Users |-> NoLocal]

\* No client runs a second call.
SecondInit ==
  /\ pc2 = [u \in Users |-> "idle"]
  /\ local2 = [u \in Users |-> NoLocal]

\* The App shows the welcome screen and holds the initial preferences; no
\* analysis is pending.
AppInit ==
  /\ appPreferences = InitialSelection
  /\ currentScreen = "welcome"
  /\ prefResult = <<>>

\* The room codes generateRoomCode draws from.
Codes == {"AAAA", "BBBB", "CCCC"}

\* No document under a room code.
NoRoom == "none"

\* The slots of a manifest and the manifest handleHostSession creates.
Slots == {"budget", "cuisine", "vibe"}
defaultManifest == [s \in Slots |-> [value |-> Null, locked |-> FALSE]]

\* No room is hosted and the host runs no call.
RoomInit ==
  /\ rooms = [c \in Codes |-> NoRoom]
  /\ manifest = defaultManifest
  /\ events = <<>>
  /\ hostPc = "idle"
  /\ hostCode = NoRoom
  /\ attempts = 0
  /\ roomSnap = FALSE
  /\ checked = [c \in Codes |-> "unchecked"]
  /\ hostError = Null

\* No client runs a call.
ClientInit ==
  /\ pc = [u \in Users |-> "idle"]
  /\ local = [u \in Users |-> NoLocal]
  /\ calls = [u \in Users |-> 0]
  /\ ViewInit
  /\ LeaveInit
  /\ SecondInit
  /\ AppInit
  /\ RoomInit

Init == StoreInit /\ GwInit /\ LobbyInit /\ DocInit /\ ClientInit

\* ------------------------------------------------------------ joinSession
\* joinSession, run without interleaving: create the document if absent,
\* add the user to the main document and to the sub-collection, append the
\* "join" activity.
JoinSession(u) ==
  /\ Len(activities) < MaxActivities
  /\ exists' = TRUE
  /\ IF ~exists
       THEN /\ ownerId' = u
            /\ votes' = EmptyVotes
            /\ locked' = FALSE
       ELSE UNCHANGED <<ownerId, votes, locked>>
  /\ users' = (IF ~exists THEN {} ELSE users) \cup {u}
  /\ userDocs' = userDocs \cup {u}
  /\ activities' = Append(activities,
       [type |-> "join", user |-> UserName(u), message |-> "joined the session"])
  /\ UNCHANGED <<swipes, sharedRestaurants, lastSwipe, gwVars, lobbyVars, docVars, clientVars>>

\* --------------------------------------------------------------- castVote
\* In castVote the filter compares the wrong key, as swipeRestaurant's does.
RemovePreviousVoteWrongKey(categoryVotes, uid) ==
  LET filtered == [o \in DOMAIN categoryVotes |->
                     SelectSeq(categoryVotes[o], LAMBDA v : v.userName # uid)]
      kept == {o \in DOMAIN categoryVotes : Len(filtered[o]) # 0}
  IN [o \in kept |-> filtered[o]]

\* The filter drops every vote of the category, whoever cast it.
RemoveEveryVote(categoryVotes, uid) == <<>>

\* "Remove user's previous vote from all options in this category":
\* filter every option's list, delete the options left empty.
RemovePreviousVote(categoryVotes, uid) ==
  LET filtered == [o \in DOMAIN categoryVotes |->
                     SelectSeq(categoryVotes[o], LAMBDA v : v.userId # uid)]
      kept == {o \in DOMAIN categoryVotes : Len(filtered[o]) # 0}
  IN [o \in kept |-> filtered[o]]

\* The new vote is put in front of the option's list.
AddNewVoteInFront(categoryVotes, value, u) ==
  LET old == IF value \in DOMAIN categoryVotes THEN categoryVotes[value] ELSE <<>>
  IN [o \in (DOMAIN categoryVotes) \cup {value} |->
        IF o = value THEN <<UserVote(u)>> \o old ELSE categoryVotes[o]]

\* "Add new vote": create the option's list if missing, push the vote.
AddNewVote(categoryVotes, value, u) ==
  LET old == IF value \in DOMAIN categoryVotes THEN categoryVotes[value] ELSE <<>>
  IN [o \in (DOMAIN categoryVotes) \cup {value} |->
        IF o = value THEN Append(old, UserVote(u)) ELSE categoryVotes[o]]

\* castVote, run without interleaving.  A missing document: return at once.
CastVote(category, value, u) ==
  IF ~exists
    THEN UNCHANGED vars
    ELSE /\ Len(activities) < MaxActivities
         /\ votes' = [votes EXCEPT ![category] =
                        AddNewVote(RemovePreviousVote(votes[category], u), value, u)]
         /\ activities' = Append(activities,
              [type |-> "preference", user |-> UserName(u),
               message |-> <<"voted for", value, category>>])
         /\ UNCHANGED <<exists, ownerId, users, locked, swipes, sharedRestaurants,
                        userDocs, lastSwipe, gwVars, lobbyVars, docVars, clientVars>>

Next ==
  \/ \E u \in Users : JoinSession(u)
  \/ \E in \in CastInputs, u \in Users : CastVote(in[1], in[2], u)

Spec == Init /\ [][Next]_vars

\* ------------------------------------------------------------------ C1
\* The positions <<option, index>> of category c's ledger that hold a vote
\* of user v.
VotePositions(c, v) ==
  { p \in UNION { {o} \X (1..Len(votes[c][o])) : o \in DOMAIN votes[c] } :
      votes[c][p[1]][p[2]].userId = v }

\* C1: after any sequence of castVote calls run one after another, every
\* voter's userId is in the voter list of at most one option of each
\* category, and at most once in that list.
C1_AtMostOneVotePerCategory ==
  \A c \in Categories, v \in Users : Cardinality(VotePositions(c, v)) <= 1

\* A voter has re-cast a vote in a category for another option (two
\* "preference" activities of that voter, same category, different values)
\* after another voter voted in that category too.
C1_Witness ==
  \E i, j, k \in 1..Len(activities) :
    /\ i < j /\ k < j
    /\ activities[i].type = "preference" /\ activities[j].type = "preference"
    /\ activities[k].type = "preference"
    /\ activities[i].user = activities[j].user
    /\ activities[k].user # activities[i].user
    /\ activities[i].message[3] = activities[j].message[3]
    /\ activities[k].message[3] = activities[j].message[3]
    /\ activities[i].message[2] # activities[j].message[2]

\* ---------------------------------------------------------- swipeRestaurant
\* obj[key] in JavaScript: undefined when the key is missing.
Field(obj, key) == IF key \in DOMAIN obj THEN obj[key] ELSE Undefined

\* A swipe entry {userId, userName, timestamp: Date.now()}.
SwipeEntry(u) == [userId |-> u, userName |-> UserName(u)]

\* likes.filter(s => s.oderId !== userId)
FilterLikes(likes, userId) ==
  SelectSeq(likes, LAMBDA s : Field(s, "oderId") # userId)

\* dislikes.filter(s => s.userId !== userId)
FilterDislikes(dislikes, userId) ==
  SelectSeq(dislikes, LAMBDA s : Field(s, "userId") # userId)

\* swipeRestaurant, run without interleaving (and not while a getGroupWinner
\* call is in flight).  A missing document: nothing is written.
SwipeRestaurant(restaurantId, direction, userId) ==
  /\ gwPc = "idle"
  /\ IF ~exists
       THEN UNCHANGED vars
       ELSE LET old == IF restaurantId \in DOMAIN swipes
                         THEN swipes[restaurantId]
                         ELSE [likes |-> <<>>, dislikes |-> <<>>]
                likes == FilterLikes(old.likes, userId)
                dislikes == FilterDislikes(old.dislikes, userId)
                new == IF direction = "right"
                         THEN [likes |-> Append(likes, SwipeEntry(userId)),
                               dislikes |-> dislikes]
                         ELSE [likes |-> likes,
                               dislikes |-> Append(dislikes, SwipeEntry(userId))]
            IN /\ Len(new.likes) <= MaxLikesLen
               /\ swipes' = [r \in (DOMAIN swipes) \cup {restaurantId} |->
                               IF r = restaurantId THEN new ELSE swipes[r]]
               /\ lastSwipe' = [lastSwipe EXCEPT ![restaurantId][userId] = direction]
               /\ UNCHANGED <<exists, ownerId, users, votes, locked,
                              sharedRestaurants, userDocs, activities,
                              gwVars, lobbyVars, docVars, clientVars>>

\* saveRestaurants: updateDoc fails on a missing document.
SaveRestaurants(restaurants) ==
  /\ gwPc = "idle"
  /\ exists
  /\ sharedRestaurants' = restaurants
  /\ UNCHANGED <<exists, ownerId, users, votes, locked, swipes, userDocs,
                 activities, lastSwipe, gwVars, lobbyVars, docVars, clientVars>>

\* ----------------------------------------------------------- getGroupWinner
\* What the awaited apiService.resolveTie(tiedRestaurants, preferences) call
\* can produce: a rejection (network error, HTTP error, failed import), a
\* null body, or a body {winner_id, reason} with either field possibly
\* missing.  (No response at all is the absence of a step.)
TieBreakResponses ==
  { [kind |-> "throw", winner_id |-> Undefined, reason |-> Undefined],
    [kind |-> "null", winner_id |-> Undefined, reason |-> Undefined] }
  \cup
  { [kind |-> "json", winner_id |-> w, reason |-> rs] :
      w \in ServiceIds \cup {Undefined},
      rs \in {"Best match for the group", Undefined} }

\* JavaScript truthiness of a string-or-missing value.
Truthy(x) == x \notin {Undefined, Null, ""}

\* restaurantLikes[restaurantId] = (votes.likes || []).length
RestaurantLikes(sw) == [r \in DOMAIN sw |-> Len(sw[r].likes)]

\* let maxLikes = 0; ... if (likes > maxLikes) maxLikes = likes
maxLikesOf(restaurantLikes) ==
  LET counts == {0} \cup {restaurantLikes[r] : r \in DOMAIN restaurantLikes}
  IN CHOOSE m \in counts : \A n \in counts : n <= m

\* The filter keeps the restaurants with at least maxLikes - 1 likes.
WinnersOffByOne(restaurantLikes, maxLikes) ==
  {id \in DOMAIN restaurantLikes : restaurantLikes[id] >= maxLikes - 1}

\* Object.entries(restaurantLikes).filter(likes === maxLikes).map(id)
Winners(restaurantLikes, maxLikes) ==
  {id \in DOMAIN restaurantLikes : restaurantLikes[id] = maxLikes}

\* restaurants.filter(r => winners.includes(r.id.toString()))
TiedRestaurants(restaurants, winners) ==
  SelectSeq(restaurants, LAMBDA r : r \in winners)

\* Math.round in place of Math.floor: the index can be winners.length.
FallbackResultsIndexOverflow(winners, maxLikes) ==
  { [restaurantId |-> w, likeCount |-> maxLikes,
     reason |-> "Randomly selected tie-breaker"] : w \in winners \cup {Undefined} }

\* "Fallback: Randomly pick one": winners[floor(random() * winners.length)]
\* can be any element of winners.
FallbackResults(winners, maxLikes) ==
  { [restaurantId |-> w, likeCount |-> maxLikes,
     reason |-> "Randomly selected tie-breaker"] : w \in winners }

\* The try block around resolveTie and what follows it: a truthy winner_id
\* is returned as is; a rejection, a null body (TypeError on
\* resolution.winner_id) or a falsy winner_id falls through to the fallback.
AfterResolveTie(resp, winners, maxLikes) ==
  IF resp.kind = "json" /\ Truthy(resp.winner_id)
    THEN { [restaurantId |-> resp.winner_id, likeCount |-> maxLikes,
            reason |-> IF Truthy(resp.reason) THEN resp.reason
                       ELSE "Selected by AI tie-breaker"] }
    ELSE FallbackResults(winners, maxLikes)

\* The test for a single leader is missing: every result goes the tie's way.
IsSingleWinnerNever(winners) == FALSE

\* if (winners.length === 1)
IsSingleWinner(winners) == Cardinality(winners) = 1

\* The no-likes test is maxLikes < 0.
NoLikesNegative(maxLikes) == maxLikes < 0

\* if (maxLikes === 0) return null
NoLikes(maxLikes) == maxLikes = 0

\* getGroupWinner up to its return or up to the resolveTie call: read the
\* document, count, and either return or invoke the Tie-Break Service.
GetGroupWinner ==
  /\ gwPc = "idle"
  /\ resolution' = NoResolution
  /\ IF ~exists
       THEN /\ gwPc' = "returned"
            /\ gwResult' = NullResult
            /\ UNCHANGED <<gwWinners, gwMaxLikes, gwServiceCalled>>
       ELSE LET restaurantLikes == RestaurantLikes(swipes)
                maxLikes == maxLikesOf(restaurantLikes)
                winners == Winners(restaurantLikes, maxLikes)
                tiedRestaurants == TiedRestaurants(sharedRestaurants, winners)
            IN /\ gwMaxLikes' = maxLikes
               /\ gwWinners' = winners
               /\ IF NoLikes(maxLikes)
                    THEN /\ gwPc' = "returned"
                         /\ gwResult' = NullResult
                         /\ gwServiceCalled' = FALSE
                    ELSE IF IsSingleWinner(winners)
                    THEN /\ gwPc' = "returned"
                         /\ gwResult' = [restaurantId |-> CHOOSE w \in winners : TRUE,
                                         likeCount |-> maxLikes,
                                         reason |-> "Most voted by the group!"]
                         /\ gwServiceCalled' = FALSE
                    ELSE IF Len(tiedRestaurants) > 0
                    THEN /\ gwPc' = "awaitingService"
                         /\ gwResult' = NoResult
                         /\ gwServiceCalled' = TRUE
                    ELSE /\ gwPc' = "returned"
                         /\ gwResult' \in FallbackResults(winners, maxLikes)
                         /\ gwServiceCalled' = FALSE
  /\ UNCHANGED <<storeVars, lobbyVars, docVars, clientVars>>

\* The Tie-Break Service's part: the awaited resolveTie call settles with
\* resp.  Nothing in getGroupWinner bounds the wait for this step.
ResolveTieSettles(resp) ==
  /\ gwPc = "awaitingService"
  /\ resolution = NoResolution
  /\ resolution' = resp
  /\ UNCHANGED <<gwPc, gwWinners, gwMaxLikes, gwServiceCalled, gwResult,
                 storeVars, lobbyVars, docVars, clientVars>>

\* getGroupWinner resumes after the await and returns.
GetGroupWinnerResume ==
  /\ gwPc = "awaitingService"
  /\ resolution # NoResolution
  /\ gwResult' \in AfterResolveTie(resolution, gwWinners, gwMaxLikes)
  /\ gwPc' = "returned"
  /\ UNCHANGED <<gwWinners, gwMaxLikes, gwServiceCalled, resolution,
                 storeVars, lobbyVars, docVars, clientVars>>

\* The caller has taken the returned value; the next operation may start.
GetGroupWinnerDone ==
  /\ gwPc = "returned"
  /\ gwPc' = "idle"
  /\ gwWinners' = {}
  /\ gwMaxLikes' = 0
  /\ gwServiceCalled' = FALSE
  /\ resolution' = NoResolution
  /\ gwResult' = NoResult
  /\ UNCHANGED <<storeVars, lobbyVars, docVars, clientVars>>

\* The session as its owner's joinSession leaves it, or no session at all.
InitSwipes ==
  /\ exists \in BOOLEAN
  /\ ownerId = (IF exists THEN "alice" ELSE Undefined)
  /\ users = (IF exists THEN {"alice"} ELSE {})
  /\ userDocs = users
  /\ votes = EmptyVotes
  /\ locked = FALSE
  /\ swipes = EmptyObject
  /\ sharedRestaurants = <<>>
  /\ lastSwipe = [r \in RestaurantIds |-> [u \in Users |-> "none"]]
  /\ activities = (IF exists
                     THEN << [type |-> "join", user |-> UserName("alice"),
                              message |-> "joined the session"] >>
                     ELSE <<>>)
  /\ GwInit
  /\ LobbyInit
  /\ DocInit
  /\ ClientInit

NextSwipes ==
  \/ \E r \in RestaurantIds, d \in {"left", "right"}, u \in Swipers :
       SwipeRestaurant(r, d, u)
  \/ \E rs \in RestaurantLists : SaveRestaurants(rs)
  \/ GetGroupWinner
  \/ \E resp \in TieBreakResponses : ResolveTieSettles(resp)
  \/ GetGroupWinnerResume
  \/ GetGroupWinnerDone

SpecSwipes == InitSwipes /\ [][NextSwipes]_vars

\* The event loop runs every continuation that is ready; whether the
\* Tie-Break Service ever responds is not in the program's hands.
FairSwipes ==
  /\ SpecSwipes
  /\ WF_vars(GetGroupWinnerResume)
  /\ WF_vars(GetGroupWinnerDone)

\* ------------------------------------------------------------- C2 .. C7
\* Number of entries of user u in a likes or dislikes list.
EntriesOf(list, u) ==
  Cardinality({i \in 1..Len(list) : list[i].userId = u})

\* C2: after any sequence of swipeRestaurant calls, a user who swiped on a
\* restaurant has exactly one entry in its likes and dislikes combined, in
\* the list of the user's most recent swipe (like, dislike, like leaves one
\* entry in likes and none in dislikes).
C2_OneSwipePerUser ==
  \A r \in RestaurantIds, u \in Swipers :
    lastSwipe[r][u] # "none" =>
      /\ r \in DOMAIN swipes
      /\ EntriesOf(swipes[r].likes, u)
           = (IF lastSwipe[r][u] = "right" THEN 1 ELSE 0)
      /\ EntriesOf(swipes[r].dislikes, u)
           = (IF lastSwipe[r][u] = "left" THEN 1 ELSE 0)

\* Like count of a restaurant in the swipe ledger, counted on the ledger
\* itself (no swipe is written while a getGroupWinner call is in flight).
LikeCount(r) == IF r \in DOMAIN swipes THEN Len(swipes[r].likes) ELSE 0

TopCount ==
  CHOOSE m \in {LikeCount(r) : r \in RestaurantIds} :
    \A r \in RestaurantIds : LikeCount(r) <= m

\* The tied set: the restaurants with the maximum like count.
TiedSet == {r \in RestaurantIds : LikeCount(r) = TopCount}

IsTie == TopCount >= 1 /\ Cardinality(TiedSet) >= 2

\* The Tie-Break Service answered with a winner id.
ServiceAnswered == resolution.kind = "json" /\ Truthy(resolution.winner_id)

\* The resolveTie call threw, or returned no winner id.
ServiceFailed ==
  \/ resolution.kind \in {"throw", "null"}
  \/ resolution.kind = "json" /\ ~Truthy(resolution.winner_id)

\* C3: on a tie, when the Tie-Break Service answers, the returned
\* restaurantId is in the tied set: a service id inside the tied set is
\* used with the service's reason, a service id outside it leads to a random
\* pick among the tied set with reason "Randomly selected tie-breaker".
C3_ServiceChoiceInTiedSet ==
  (gwPc = "returned" /\ IsTie /\ ServiceAnswered) =>
    /\ gwResult.restaurantId \in TiedSet
    /\ resolution.winner_id \in TiedSet =>
         /\ gwResult.restaurantId = resolution.winner_id
         /\ Truthy(resolution.reason) => gwResult.reason = resolution.reason
    /\ resolution.winner_id \notin TiedSet =>
         gwResult.reason = "Randomly selected tie-breaker"

\* C4: on a tie, when the Tie-Break Service call throws or returns no
\* winner id, getGroupWinner returns one of the tied restaurants with the
\* maximum like count and reason "Randomly selected tie-breaker".
C4_FallbackOnServiceFailure ==
  (gwPc = "returned" /\ ServiceFailed) =>
    /\ IsTie
    /\ gwResult.restaurantId \in TiedSet
    /\ gwResult.likeCount = TopCount
    /\ gwResult.reason = "Randomly selected tie-breaker"

\* getGroupWinner returned after the service call threw on a tie.
C4_Witness ==
  /\ gwPc = "returned" /\ IsTie /\ gwServiceCalled
  /\ resolution.kind = "throw"
  /\ gwResult.restaurantId \in TiedSet

\* C5: whenever some restaurant has a like, an invocation of getGroupWinner
\* eventually returns a non-null decision, also when the Tie-Break Service
\* never responds.
C5_WinnerEventuallyReturned ==
  (gwPc = "awaitingService") ~> (gwPc = "returned" /\ gwResult # NullResult)

\* C6: exactly one restaurant with the maximum like count (at least 1):
\* getGroupWinner returns it with that count and reason "Most voted by the
\* group!", and the Tie-Break Service is never invoked.
C6_SingleLeader ==
  (gwPc # "idle" /\ exists /\ TopCount >= 1 /\ Cardinality(TiedSet) = 1) =>
    /\ gwPc = "returned"
    /\ gwResult.restaurantId \in TiedSet
    /\ gwResult.likeCount = TopCount
    /\ gwResult.reason = "Most voted by the group!"
    /\ ~gwServiceCalled
    /\ resolution = NoResolution

\* getGroupWinner returned the single leader while another restaurant has
\* fewer, but some, likes.
C6_Witness ==
  /\ gwPc = "returned" /\ Cardinality(TiedSet) = 1
  /\ \E r \in RestaurantIds : 1 <= LikeCount(r) /\ LikeCount(r) < TopCount
  /\ gwResult.restaurantId \in TiedSet

\* C7: no restaurant has any like (empty ledger or only dislikes):
\* getGroupWinner returns null and the Tie-Break Service is not invoked.
C7_NoLikesNoWinner ==
  (gwPc # "idle" /\ TopCount = 0) =>
    /\ gwPc = "returned"
    /\ gwResult = NullResult
    /\ ~gwServiceCalled
    /\ resolution = NoResolution

\* getGroupWinner returned on a ledger that holds dislikes only.
C7_Witness ==
  /\ gwPc = "returned" /\ TopCount = 0 /\ gwResult = NullResult
  /\ \E r \in DOMAIN swipes : Len(swipes[r].dislikes) > 0

\* ------------------------------------------------------ getMergedPreferences
budgetOptions == <<"$", "$$", "$$$", "$$$$">>
cuisineOptions == <<"Italian", "Japanese", "Mexican", "French", "Thai",
                    "Indian", "Korean", "Spanish">>
vibeOptions == <<"Casual", "Fine Dining", "Trendy", "Cozy", "Lively",
                 "Romantic", "Family-Friendly">>
dietaryOptions == <<"None", "Vegetarian", "Vegan", "Gluten-Free", "Halal", "Kosher">>
distanceOptions == <<"0.5 mi", "1 mi", "2 mi", "5 mi", "10 mi">>

budgetRank == <<"$", "$$", "$$$", "$$$$">>
distanceRank == <<"0.5 mi", "1 mi", "2 mi", "5 mi", "10 mi">>
dietaryPriority == <<"Vegan", "Vegetarian", "Gluten-Free", "Halal", "Kosher", "None">>

\* Array.prototype.indexOf: the 0-based index of the first x, or -1.
indexOf(array, x) ==
  IF \E i \in 1..Len(array) : array[i] = x
    THEN (CHOOSE i \in 1..Len(array) :
            array[i] = x /\ \A j \in 1..(i - 1) : array[j] # x) - 1
    ELSE -1

\* (userVotes[category][value] || []).length
getVoteCount(uv, category, value) ==
  IF value \in DOMAIN uv[category] THEN Len(uv[category][value]) ELSE 0

\* The filter on maxVotes is missing: every option with a vote is returned.
getTopVotedAllVoted(uv, category, options) ==
  LET all == [i \in 1..Len(options) |->
                [option |-> options[i], count |-> getVoteCount(uv, category, options[i])]]
      voteCounts == SelectSeq(all, LAMBDA v : v.count > 0)
  IN [i \in 1..Len(voteCounts) |-> voteCounts[i].option]

\* getTopVoted: the options with a vote whose count is the maximum, in the
\* order of options; [] when no option has a vote.
getTopVoted(uv, category, options) ==
  LET all == [i \in 1..Len(options) |->
                [option |-> options[i], count |-> getVoteCount(uv, category, options[i])]]
      voteCounts == SelectSeq(all, LAMBDA v : v.count > 0)
      counts == {voteCounts[i].count : i \in 1..Len(voteCounts)}
      maxVotes == CHOOSE m \in counts : \A n \in counts : n <= m
      top == SelectSeq(voteCounts, LAMBDA v : v.count = maxVotes)
  IN IF Len(voteCounts) = 0 THEN <<>>
     ELSE [i \in 1..Len(top) |-> top[i].option]

\* The comparison of the budget reduce is turned around.
RECURSIVE LowestBudgetFlipped(_)
LowestBudgetFlipped(budgetVotes) ==
  IF Len(budgetVotes) = 1 THEN budgetVotes[1]
  ELSE LET lowest == LowestBudgetFlipped(SubSeq(budgetVotes, 1, Len(budgetVotes) - 1))
           current == budgetVotes[Len(budgetVotes)]
       IN IF indexOf(budgetRank, current) > indexOf(budgetRank, lowest)
            THEN current ELSE lowest

\* budgetVotes.reduce((lowest, current) =>
\*   budgetRank.indexOf(current) < budgetRank.indexOf(lowest) ? current : lowest)
RECURSIVE LowestBudget(_)
LowestBudget(budgetVotes) ==
  IF Len(budgetVotes) = 1 THEN budgetVotes[1]
  ELSE LET lowest == LowestBudget(SubSeq(budgetVotes, 1, Len(budgetVotes) - 1))
           current == budgetVotes[Len(budgetVotes)]
       IN IF indexOf(budgetRank, current) < indexOf(budgetRank, lowest)
            THEN current ELSE lowest

\* The comparison of the distance reduce is turned around.
RECURSIVE HighestDistanceFlipped(_)
HighestDistanceFlipped(distanceVotes) ==
  IF Len(distanceVotes) = 1 THEN distanceVotes[1]
  ELSE LET highest == HighestDistanceFlipped(SubSeq(distanceVotes, 1, Len(distanceVotes) - 1))
           current == distanceVotes[Len(distanceVotes)]
       IN IF indexOf(distanceRank, current) < indexOf(distanceRank, highest)
            THEN current ELSE highest

\* distanceVotes.reduce((highest, current) =>
\*   distanceRank.indexOf(current) > distanceRank.indexOf(highest) ? current : highest)
RECURSIVE HighestDistance(_)
HighestDistance(distanceVotes) ==
  IF Len(distanceVotes) = 1 THEN distanceVotes[1]
  ELSE LET highest == HighestDistance(SubSeq(distanceVotes, 1, Len(distanceVotes) - 1))
           current == distanceVotes[Len(distanceVotes)]
       IN IF indexOf(distanceRank, current) > indexOf(distanceRank, highest)
            THEN current ELSE highest

\* The dietary loop walks dietaryOptions in place of dietaryPriority.
RECURSIVE MergedDietaryByOptionOrder(_, _, _)
MergedDietaryByOptionOrder(uv, dietary, i) ==
  IF i > Len(dietaryOptions) THEN dietary
  ELSE IF getVoteCount(uv, "dietary", dietaryOptions[i]) > 0
         THEN dietaryOptions[i]
         ELSE MergedDietaryByOptionOrder(uv, dietary, i + 1)

\* let mergedDietary = dietary; for (const diet of dietaryPriority)
\*   if (getVoteCount('dietary', diet) > 0) { mergedDietary = diet; break; }
\* from the i-th entry of dietaryPriority on.
RECURSIVE MergedDietary(_, _, _)
MergedDietary(uv, dietary, i) ==
  IF i > Len(dietaryPriority) THEN dietary
  ELSE IF getVoteCount(uv, "dietary", dietaryPriority[i]) > 0
         THEN dietaryPriority[i]
         ELSE MergedDietary(uv, dietary, i + 1)

\* The words of an option or selection string (split at spaces).
Words(str) ==
  CASE str = "" -> <<>>
    [] str = "Fine Dining" -> <<"Fine", "Dining">>
    [] OTHER -> <<str>>

\* array.join(' '), as the sequence of the words of the joined string.
RECURSIVE JoinSpace(_)
JoinSpace(array) ==
  IF Len(array) = 0 THEN <<>>
  ELSE JoinSpace(SubSeq(array, 1, Len(array) - 1)) \o Words(array[Len(array)])

\* The tie test is length > 0: a single leader counts as a tie.
HasTieAtLeastOne(topVotes) == Len(topVotes) > 0

\* cuisineVotes.length > 1, vibeVotes.length > 1
HasTie(topVotes) == Len(topVotes) > 1

\* A non-empty local cuisine selection wins over the votes.
getMergedPreferencesLocalFirst(uv, sel) ==
  LET budgetVotes == getTopVoted(uv, "budget", budgetOptions)
      cuisineVotes == getTopVoted(uv, "cuisine", cuisineOptions)
      vibeVotes == getTopVoted(uv, "vibe", vibeOptions)
      distanceVotes == getTopVoted(uv, "distance", distanceOptions)
  IN [cuisine |-> IF sel.cuisine = "" /\ Len(cuisineVotes) > 0
                    THEN JoinSpace(cuisineVotes)
                    ELSE Words(sel.cuisine),
      budget |-> IF Len(budgetVotes) > 0 THEN LowestBudget(budgetVotes)
                 ELSE sel.budget,
      vibe |-> IF Len(vibeVotes) > 0 THEN JoinSpace(vibeVotes) ELSE Words(sel.vibe),
      dietary |-> MergedDietary(uv, sel.dietary, 1),
      distance |-> IF Len(distanceVotes) > 0 THEN HighestDistance(distanceVotes)
                   ELSE sel.distance,
      hasCuisineTie |-> HasTie(cuisineVotes),
      hasVibeTie |-> HasTie(vibeVotes),
      cuisineOptions |-> cuisineVotes,
      vibeOptions |-> vibeVotes]

\* getMergedPreferences on the client's userVotes and local selections sel.
\* cuisine and vibe are given as the words of the string.
getMergedPreferences(uv, sel) ==
  LET budgetVotes == getTopVoted(uv, "budget", budgetOptions)
      cuisineVotes == getTopVoted(uv, "cuisine", cuisineOptions)
      vibeVotes == getTopVoted(uv, "vibe", vibeOptions)
      distanceVotes == getTopVoted(uv, "distance", distanceOptions)
  IN [cuisine |-> IF Len(cuisineVotes) > 0 THEN JoinSpace(cuisineVotes)
                  ELSE Words(sel.cuisine),
      budget |-> IF Len(budgetVotes) > 0 THEN LowestBudget(budgetVotes)
                 ELSE sel.budget,
      vibe |-> IF Len(vibeVotes) > 0 THEN JoinSpace(vibeVotes) ELSE Words(sel.vibe),
      dietary |-> MergedDietary(uv, sel.dietary, 1),
      distance |-> IF Len(distanceVotes) > 0 THEN HighestDistance(distanceVotes)
                   ELSE sel.distance,
      hasCuisineTie |-> HasTie(cuisineVotes),
      hasVibeTie |-> HasTie(vibeVotes),
      cuisineOptions |-> cuisineVotes,
      vibeOptions |-> vibeVotes]

\* The call also stores the merged budget and distance as the client's own
\* selection.
GetMergedPreferencesWritesBack ==
  /\ merged' = << getMergedPreferences(userVotes, selection) >>
  /\ selection' = [selection EXCEPT !.budget = merged'[1].budget,
                                    !.distance = merged'[1].distance]
  /\ UNCHANGED <<storeVars, gwVars, userVotes, docVars, clientVars>>

\* A call of getMergedPreferences by the client.
GetMergedPreferences ==
  /\ merged' = << getMergedPreferences(userVotes, selection) >>
  /\ UNCHANGED <<storeVars, gwVars, userVotes, selection, docVars, clientVars>>

\* The option list of a category.
OptionsOf(c) ==
  CASE c = "budget" -> budgetOptions
    [] c = "cuisine" -> cuisineOptions
    [] c = "vibe" -> vibeOptions
    [] c = "dietary" -> dietaryOptions
    [] OTHER -> distanceOptions

\* Ids of the voters of the ledgers SpecMerge starts from.
VoterIds == <<"alice", "bob", "carol", "dave", "erin", "frank", "grace", "heidi">>

RECURSIVE SumUpTo(_, _)
SumUpTo(counts, n) == IF n = 0 THEN 0 ELSE counts[n] + SumUpTo(counts, n - 1)

\* The ledger of one category in which the i-th option holds counts[i] votes,
\* cast by distinct voters; options without a vote have no key.
CategoryLedger(options, counts) ==
  LET voted == {i \in 1..Len(options) : counts[i] > 0}
      indexOfOption(o) == CHOOSE i \in 1..Len(options) : options[i] = o
  IN [o \in {options[i] : i \in voted} |->
        LET i == indexOfOption(o)
        IN [k \in 1..counts[i] |-> UserVote(VoterIds[SumUpTo(counts, i - 1) + k])]]

\* The user ids that hold a vote in a ledger.
VotersOf(ledger) ==
  UNION { UNION { {ledger[c][o][k].userId : k \in 1..Len(ledger[c][o])} :
                  o \in DOMAIN ledger[c] } : c \in Categories }

\* The local selections SpecMerge starts from: the initial ones, or one
\* choice made in every category.
LocalSelections ==
  { InitialSelection,
    [budget |-> "$$$$", cuisine |-> "Thai", vibe |-> "Fine Dining",
     dietary |-> "Kosher", distance |-> "0.5 mi"] }

\* The categories in which onPreferencesDetected can cast a vote for a value
\* outside the option list (the extraction maps fall back to the raw value),
\* and such a value for each.
ForeignCategories == {"cuisine", "vibe", "dietary"}
ForeignOption(c) ==
  CASE c = "cuisine" -> "Chinese"
    [] c = "vibe" -> "Rooftop"
    [] OTHER -> "Pescatarian"

\* A category ledger with, when foreign, one more vote for the value outside
\* the option list.
WithForeign(ledger, c, foreign) ==
  IF ~foreign THEN ledger
  ELSE [o \in (DOMAIN ledger) \cup {ForeignOption(c)} |->
          IF o = ForeignOption(c) THEN << UserVote("heidi") >> ELSE ledger[o]]

\* A session whose ledger holds votes in one category, pushed to a client.
InitMerge ==
  /\ \E c \in Categories :
       \E counts \in [1..Len(OptionsOf(c)) -> 0..MaxPerOption] :
         \E foreign \in (IF c \in ForeignCategories THEN BOOLEAN ELSE {FALSE}) :
           /\ SumUpTo(counts, Len(OptionsOf(c))) <= MaxVoters
           /\ votes = [EmptyVotes EXCEPT ![c] =
                         WithForeign(CategoryLedger(OptionsOf(c), counts), c, foreign)]
  /\ userVotes = votes
  /\ selection \in LocalSelections
  /\ merged = <<>>
  /\ exists = TRUE
  /\ ownerId = "alice"
  /\ users = {"alice"} \cup VotersOf(votes)
  /\ userDocs = users
  /\ locked = FALSE
  /\ swipes = EmptyObject
  /\ sharedRestaurants = <<>>
  /\ activities = <<>>
  /\ lastSwipe = [r \in RestaurantIds |-> [u \in Users |-> "none"]]
  /\ GwInit
  /\ DocInit
  /\ ClientInit

NextMerge == GetMergedPreferences

SpecMerge == InitMerge /\ [][NextMerge]_vars

\* ------------------------------------------------------------ C8 .. C10
\* Vote count of an option in the client's ledger, counted on the ledger.
Tally(c, o) == IF o \in DOMAIN userVotes[c] THEN Len(userVotes[c][o]) ELSE 0

\* The options of a list that hold the most votes (and at least one).
Leaders(c, options) ==
  {o \in options : Tally(c, o) > 0 /\ \A p \in options : Tally(c, p) <= Tally(c, o)}

\* Price level of a budget option: its number of dollar signs.
PriceLevel(o) ==
  CASE o = "$" -> 1 [] o = "$$" -> 2 [] o = "$$$" -> 3 [] o = "$$$$" -> 4
    [] OTHER -> 0

BudgetSet == {"$", "$$", "$$$", "$$$$"}

\* C8: when a budget option has a vote, the merged budget is the cheapest of
\* the options whose vote count equals the maximum count.
C8_BudgetCheapestLeader ==
  (merged # <<>> /\ Leaders("budget", BudgetSet) # {}) =>
    /\ merged[1].budget \in Leaders("budget", BudgetSet)
    /\ \A o \in Leaders("budget", BudgetSet) :
         PriceLevel(merged[1].budget) <= PriceLevel(o)

\* The merge ran on {$$: 2, $$$: 2} and gave $$.
C8_Witness ==
  /\ merged # <<>>
  /\ Tally("budget", "$$") = 2 /\ Tally("budget", "$$$") = 2
  /\ Tally("budget", "$") = 0 /\ Tally("budget", "$$$$") = 0
  /\ merged[1].budget = "$$"

\* Restrictiveness of a dietary option: Vegan first, None last.
Restrictiveness(o) ==
  CASE o = "Vegan" -> 1 [] o = "Vegetarian" -> 2 [] o = "Gluten-Free" -> 3
    [] o = "Halal" -> 4 [] o = "Kosher" -> 5 [] o = "None" -> 6
    [] OTHER -> 7

DietarySet == {"Vegan", "Vegetarian", "Gluten-Free", "Halal", "Kosher", "None"}

\* C9: the merged dietary is the first option in the order Vegan,
\* Vegetarian, Gluten-Free, Halal, Kosher, None that has a vote, whatever the
\* vote counts of the other options are.
C9_DietaryMostRestrictive ==
  (merged # <<>> /\ \E o \in DietarySet : Tally("dietary", o) > 0) =>
    /\ Tally("dietary", merged[1].dietary) > 0
    /\ \A o \in DietarySet :
         Tally("dietary", o) > 0 =>
           Restrictiveness(merged[1].dietary) <= Restrictiveness(o)

\* One Vegetarian vote beat three Halal votes and a None vote.
C9_Witness ==
  /\ merged # <<>>
  /\ Tally("dietary", "Vegetarian") = 1
  /\ Tally("dietary", "Halal") = 3
  /\ Tally("dietary", "None") >= 1
  /\ merged[1].dietary = "Vegetarian"

\* Radius of a distance option, in tenths of a mile.
Radius(o) ==
  CASE o = "0.5 mi" -> 5 [] o = "1 mi" -> 10 [] o = "2 mi" -> 20
    [] o = "5 mi" -> 50 [] o = "10 mi" -> 100 [] OTHER -> 0

DistanceSet == {"0.5 mi", "1 mi", "2 mi", "5 mi", "10 mi"}

\* C10: when a distance option has a vote, the merged distance is the
\* largest radius among the options whose vote count equals the maximum
\* count; an option with fewer votes is never returned.
C10_DistanceLargestLeader ==
  (merged # <<>> /\ Leaders("distance", DistanceSet) # {}) =>
    /\ merged[1].distance \in Leaders("distance", DistanceSet)
    /\ \A o \in Leaders("distance", DistanceSet) :
         Radius(o) <= Radius(merged[1].distance)

\* The merge ran on {1 mi: 3, 5 mi: 3} and gave 5 mi.
C10_Witness ==
  /\ merged # <<>>
  /\ Tally("distance", "1 mi") = 3 /\ Tally("distance", "5 mi") = 3
  /\ merged[1].distance = "5 mi"

\* ------------------------------------------------------------ C11 .. C14
CuisineSet == {cuisineOptions[i] : i \in 1..Len(cuisineOptions)}
VibeSet == {vibeOptions[i] : i \in 1..Len(vibeOptions)}

\* The joined string (as words) mentions option o.
Mentions(words, o) ==
  \E i \in 1..Len(words) :
    /\ i + Len(Words(o)) - 1 <= Len(words)
    /\ SubSeq(words, i, i + Len(Words(o)) - 1) = Words(o)

\* The elements of a list.
Range(list) == {list[i] : i \in 1..Len(list)}

\* C11: when an option of the cuisine (vibe) list has a vote, the merged
\* cuisine (vibe) string is made of exactly the listed options whose vote
\* count equals the maximum count: every tied leader is in it, no option
\* with fewer votes is, and the reported option list holds the same options.
C11_AllTiedLeadersJoined ==
  merged # <<>> =>
    /\ Leaders("cuisine", CuisineSet) # {} =>
         /\ {o \in CuisineSet : Mentions(merged[1].cuisine, o)}
              = Leaders("cuisine", CuisineSet)
         /\ Len(merged[1].cuisine) = Cardinality(Leaders("cuisine", CuisineSet))
         /\ Range(merged[1].cuisineOptions) = Leaders("cuisine", CuisineSet)
    /\ Leaders("vibe", VibeSet) # {} =>
         /\ {o \in VibeSet : Mentions(merged[1].vibe, o)} = Leaders("vibe", VibeSet)
         /\ Len(merged[1].vibe)
              = Cardinality(Leaders("vibe", VibeSet))
                + Cardinality(Leaders("vibe", VibeSet) \cap {"Fine Dining"})
         /\ Range(merged[1].vibeOptions) = Leaders("vibe", VibeSet)

\* The merge ran on vibe {Casual: 2, Fine Dining: 2, Trendy: 1} and gave
\* "Casual Fine Dining".
C11_Witness ==
  /\ merged # <<>>
  /\ Tally("vibe", "Casual") = 2 /\ Tally("vibe", "Fine Dining") = 2
  /\ Tally("vibe", "Trendy") = 1
  /\ merged[1].vibe = <<"Casual", "Fine", "Dining">>

\* The value of category c in a local selection, in the form the merge
\* result gives it (cuisine and vibe as words).
SelectionValue(sel, c) ==
  IF c \in {"cuisine", "vibe"} THEN Words(sel[c]) ELSE sel[c]

\* The empty value of category c, in the same form.
EmptyValue(c) == IF c \in {"cuisine", "vibe"} THEN <<>> ELSE ""

\* Category c of the client's ledger holds no vote at all.
HasNoVote(c) == DOMAIN userVotes[c] = {}

\* No option of category c's option list holds a vote.
NoListedVote(c) == \A o \in Range(OptionsOf(c)) : Tally(c, o) = 0

\* Every local selection gives the merged value of category c that the
\* client's own selection gave.
SelectionHasNoInfluence(c) ==
  \A sel \in LocalSelections :
    getMergedPreferences(userVotes, sel)[c] = merged[1][c]

\* C12 as stated: for each of the five categories, with zero votes the
\* merged value is the client's local selection, or the empty value when the
\* client has selected nothing; with at least one vote the local selection
\* has no influence on the merged value.
C12_FallbackOrEmpty ==
  merged # <<>> =>
    \A c \in Categories :
      /\ HasNoVote(c) =>
           merged[1][c] = (IF selection[c] = InitialSelection[c]
                             THEN EmptyValue(c)
                             ELSE SelectionValue(selection, c))
      /\ ~HasNoVote(c) => SelectionHasNoInfluence(c)

\* C12, amended: for each of the five categories, when no option of the
\* category's option list has a vote the merged value is the client's local
\* selection for it (before any selection: empty for budget, cuisine and
\* vibe, "None" for dietary, "2 mi" for distance); when an option of the list
\* has a vote the local selection has no influence on the merged value.
C12_FallbackToLocalSelection ==
  merged # <<>> =>
    \A c \in Categories :
      /\ NoListedVote(c) => merged[1][c] = SelectionValue(selection, c)
      /\ ~NoListedVote(c) => SelectionHasNoInfluence(c)

\* The merge ran for a client that selected Thai on a cuisine ledger whose
\* only vote is for a value outside the option list, and gave Thai.
C12_Witness ==
  /\ merged # <<>>
  /\ DOMAIN userVotes["cuisine"] = {ForeignOption("cuisine")}
  /\ selection.cuisine = "Thai"
  /\ merged[1].cuisine = <<"Thai">>

\* The names under which a merge result would report category c's tie flag
\* and tied options.
TieFlagField(c) ==
  CASE c = "budget" -> "hasBudgetTie"
    [] c = "cuisine" -> "hasCuisineTie"
    [] c = "vibe" -> "hasVibeTie"
    [] c = "dietary" -> "hasDietaryTie"
    [] OTHER -> "hasDistanceTie"
TieListField(c) ==
  CASE c = "budget" -> "budgetOptions"
    [] c = "cuisine" -> "cuisineOptions"
    [] c = "vibe" -> "vibeOptions"
    [] c = "dietary" -> "dietaryOptions"
    [] OTHER -> "distanceOptions"

\* The merge result reports category c's tie: the flag says whether two or
\* more listed options hold the most votes, the list holds those leaders.
TieReported(c) ==
  /\ TieFlagField(c) \in DOMAIN merged[1]
  /\ TieListField(c) \in DOMAIN merged[1]
  /\ merged[1][TieFlagField(c)]
       = (Cardinality(Leaders(c, Range(OptionsOf(c)))) >= 2)
  /\ Range(merged[1][TieListField(c)]) = Leaders(c, Range(OptionsOf(c)))

\* C13 as stated: for every one of the five categories the merge output
\* reports whether two or more options were tied for the most votes, and the
\* list of the tied options.
C13_TieReportedPerCategory ==
  merged # <<>> => \A c \in Categories : TieReported(c)

\* C13, amended: the merge output reports the tie flag and the list of the
\* leading options for cuisine and for vibe only; it has no field about a
\* tie in budget, dietary or distance.
C13_TieReportedForCuisineAndVibe ==
  merged # <<>> =>
    /\ TieReported("cuisine")
    /\ TieReported("vibe")
    /\ \A c \in {"budget", "dietary", "distance"} :
         /\ TieFlagField(c) \notin DOMAIN merged[1]
         /\ TieListField(c) \notin DOMAIN merged[1]

\* The merge ran on cuisine {Italian: 1, Japanese: 1} and reported the tie.
C13_Witness ==
  /\ merged # <<>>
  /\ Tally("cuisine", "Italian") = 1 /\ Tally("cuisine", "Japanese") = 1
  /\ merged[1].hasCuisineTie
  /\ merged[1].cuisineOptions = <<"Italian", "Japanese">>

StepUsers == {"alice", "bob"}
StepCastInputs == { <<"cuisine", "Italian">>, <<"budget", "$$">> }
LockInputs == { [cuisine |-> "Italian", budget |-> "$$"] }

\* A client goes on to position p with local variables l.
Goto(u, p, l) ==
  /\ pc' = [pc EXCEPT ![u] = p]
  /\ local' = [local EXCEPT ![u] = l]
  /\ UNCHANGED <<calls, viewVars, leaveVars, secondVars, appVars, roomVars>>

\* A client that runs no call starts one, and is at position p with local
\* variables l after the call's first step.
Start(u, p, l) ==
  /\ pc[u] = "idle"
  /\ calls[u] < MaxCalls
  /\ pc' = [pc EXCEPT ![u] = p]
  /\ local' = [local EXCEPT ![u] = l]
  /\ calls' = [calls EXCEPT ![u] = @ + 1]
  /\ UNCHANGED <<viewVars, leaveVars, secondVars, appVars, roomVars>>

\* joinSession up to its first await and the read it waits for:
\* const sessionDoc = await getDoc(sessionRef).
JoinSessionGetDoc(u) ==
  /\ Start(u, IF exists THEN "joinAddUserGet" ELSE "joinSetDoc",
          [NoLocal EXCEPT !.docExists = exists])
  /\ UNCHANGED <<storeVars, gwVars, lobbyVars, docVars>>

\* if (!sessionDoc.exists()) await setDoc(sessionRef, {...}): the write
\* replaces the whole document, whatever it holds by now.
JoinSessionSetDoc(u) ==
  /\ pc[u] = "joinSetDoc"
  /\ exists' = TRUE
  /\ ownerId' = u
  /\ votes' = EmptyVotes
  /\ locked' = FALSE
  /\ users' = {}
  /\ swipes' = EmptyObject
  /\ sharedRestaurants' = <<>>
  /\ winnerId' = Undefined
  /\ winningReason' = Undefined
  /\ consensus' = <<>>
  /\ finishedUsers' = <<>>
  /\ Goto(u, "joinAddUserGet", local[u])
  /\ UNCHANGED <<userDocs, activities, lastSwipe, gwVars, lobbyVars>>

\* addUserToMainDoc: const sessionDoc = await getDoc(sessionRef).
JoinSessionAddUserGet(u) ==
  /\ pc[u] = "joinAddUserGet"
  /\ Goto(u, IF exists THEN "joinAddUserUpdate" ELSE "joinSetUser",
          [local[u] EXCEPT !.docExists = exists, !.currentUsers = users])
  /\ UNCHANGED <<storeVars, gwVars, lobbyVars, docVars>>

\* addUserToMainDoc: currentUsers[user.id] = user;
\* await updateDoc(sessionRef, {users: currentUsers}).
JoinSessionAddUserUpdate(u) ==
  /\ pc[u] = "joinAddUserUpdate"
  /\ users' = local[u].currentUsers \cup {u}
  /\ Goto(u, "joinSetUser", local[u])
  /\ UNCHANGED <<exists, ownerId, votes, locked, swipes, sharedRestaurants,
                 userDocs, activities, lastSwipe, gwVars, lobbyVars, docVars>>

\* await setDoc(userRef, user)
JoinSessionSetUser(u) ==
  /\ pc[u] = "joinSetUser"
  /\ userDocs' = userDocs \cup {u}
  /\ Goto(u, "joinAddActivity", local[u])
  /\ UNCHANGED <<exists, ownerId, users, votes, locked, swipes, sharedRestaurants,
                 activities, lastSwipe, gwVars, lobbyVars, docVars>>

\* await addDoc(activitiesRef, {type: 'join', ...}), and the return.
JoinSessionAddActivity(u) ==
  /\ pc[u] = "joinAddActivity"
  /\ activities' = Append(activities,
       [type |-> "join", user |-> UserName(u), message |-> "joined the session"])
  /\ Goto(u, "idle", NoLocal)
  /\ UNCHANGED <<exists, ownerId, users, votes, locked, swipes, sharedRestaurants,
                 userDocs, lastSwipe, gwVars, lobbyVars, docVars>>

\* The test on the document is missing: castVote goes on without a document.
CastVoteNoExistsTest(docExists) == FALSE

\* if (!sessionDoc.exists()) return
CastVoteReturnsAtOnce(docExists) == ~docExists

\* castVote up to its first await and the read it waits for:
\* const sessionDoc = await getDoc(sessionRef); const data = sessionDoc.data().
CastVoteGetDoc(category, value, u) ==
  /\ Start(u, IF CastVoteReturnsAtOnce(exists) THEN "castNoSession" ELSE "castUpdate",
          [NoLocal EXCEPT !.docExists = exists, !.dataVotes = votes,
                          !.category = category, !.value = value])
  /\ UNCHANGED <<storeVars, gwVars, lobbyVars, docVars>>

\* The return of castVote on a missing document.
CastVoteReturn(u) ==
  /\ pc[u] = "castNoSession"
  /\ Goto(u, "idle", NoLocal)
  /\ UNCHANGED <<storeVars, gwVars, lobbyVars, docVars>>

\* The update replaces the whole votes map by the one that was read, with
\* the category's new votes.
CastVoteWriteAllVotes(current, dataVotes, category, categoryVotes) ==
  [dataVotes EXCEPT ![category] = categoryVotes]

\* updateDoc(sessionRef, {[`votes.${category}`]: categoryVotes}): the field
\* path replaces votes.<category> of the stored document and nothing else.
CastVoteWrite(current, dataVotes, category, categoryVotes) ==
  [current EXCEPT ![category] = categoryVotes]

\* The votes of the category that was read, without the voter's previous
\* vote and with the new one, written by updateDoc.  updateDoc on a missing
\* document rejects; castVote's catch rethrows.
CastVoteUpdate(u) ==
  /\ pc[u] = "castUpdate"
  /\ IF ~exists
       THEN /\ Goto(u, "idle", NoLocal)
            /\ UNCHANGED <<storeVars, gwVars, lobbyVars, docVars>>
       ELSE LET l == local[u]
                categoryVotes ==
                  AddNewVote(RemovePreviousVote(l.dataVotes[l.category], u),
                             l.value, u)
            IN /\ votes' = CastVoteWrite(votes, l.dataVotes, l.category, categoryVotes)
               /\ Goto(u, "castAddActivity", l)
               /\ UNCHANGED <<exists, ownerId, users, locked, swipes,
                              sharedRestaurants, userDocs, activities, lastSwipe,
                              gwVars, lobbyVars, docVars>>

\* await addDoc(activitiesRef, {type: 'preference', ...}), and the return.
CastVoteAddActivity(u) ==
  /\ pc[u] = "castAddActivity"
  /\ activities' = Append(activities,
       [type |-> "preference", user |-> UserName(u),
        message |-> <<"voted for", local[u].value, local[u].category>>])
  /\ Goto(u, "idle", NoLocal)
  /\ UNCHANGED <<exists, ownerId, users, votes, locked, swipes, sharedRestaurants,
                 userDocs, lastSwipe, gwVars, lobbyVars, docVars>>

\* lockPreferences: updateDoc(sessionRef, {locked: true, consensus:
\* preferences}); on a missing document the update rejects and nothing is
\* written.
LockPreferences(preferences, u) ==
  /\ Start(u, "idle", NoLocal)
  /\ exists
  /\ locked' = TRUE
  /\ consensus' = << preferences >>
  /\ UNCHANGED <<exists, ownerId, users, votes, swipes, sharedRestaurants,
                 userDocs, activities, lastSwipe, gwVars, lobbyVars,
                 winnerId, winningReason, finishedUsers>>

NextSteps ==
  \/ \E u \in StepUsers : JoinSessionGetDoc(u)
  \/ \E u \in StepUsers : JoinSessionSetDoc(u)
  \/ \E u \in StepUsers : JoinSessionAddUserGet(u)
  \/ \E u \in StepUsers : JoinSessionAddUserUpdate(u)
  \/ \E u \in StepUsers : JoinSessionSetUser(u)
  \/ \E u \in StepUsers : JoinSessionAddActivity(u)
  \/ \E in \in StepCastInputs, u \in StepUsers : CastVoteGetDoc(in[1], in[2], u)
  \/ \E u \in StepUsers : CastVoteReturn(u)
  \/ \E u \in StepUsers : CastVoteUpdate(u)
  \/ \E u \in StepUsers : CastVoteAddActivity(u)
  \/ \E p \in LockInputs, u \in StepUsers : LockPreferences(p, u)

\* Every call of every client split at its awaits, the steps of the clients
\* interleaved; a client runs one call at a time.
SpecSteps == Init /\ [][NextSteps]_vars

\* ------------------------------------------------------------ C15 .. C18
\* The positions inside castVote and inside joinSession.
CastPositions == {"castNoSession", "castUpdate", "castAddActivity"}
JoinPositions == {"joinSetDoc", "joinAddUserGet", "joinAddUserUpdate",
                  "joinSetUser", "joinAddActivity"}

\* This step is a step of a castVote call of client u.
IsCastVoteStep(u) ==
  /\ pc'[u] # pc[u]
  /\ pc[u] \in CastPositions \/ pc'[u] \in CastPositions

\* The holders of a vote in category c of the stored ledger.
StoredVoters(c) ==
  UNION { {votes[c][o][k].userId : k \in 1..Len(votes[c][o])} : o \in DOMAIN votes[c] }

\* C15: every step of a castVote(c, option, voter) call leaves the vote
\* lists of the four other categories, the swipe ledger, users, locked and
\* ownerId of the session document as they were, also when the calls of
\* several clients interleave: a vote in one category never retracts a vote
\* in another category.
C15_CastVoteChangesOneCategory ==
  [][ \A u \in StepUsers :
        IsCastVoteStep(u) =>
          LET c == IF pc[u] = "idle" THEN local'[u].category ELSE local[u].category
          IN /\ \A d \in Categories \ {c} : votes'[d] = votes[d]
             /\ UNCHANGED <<swipes, users, locked, ownerId>> ]_vars

\* A voter's castVote in budget has written, in a locked session, and the
\* voter's cuisine vote is still there.
C15_Witness ==
  \E u \in StepUsers :
    /\ pc[u] = "castAddActivity" /\ local[u].category = "budget"
    /\ u \in StoredVoters("budget")
    /\ u \in StoredVoters("cuisine")
    /\ locked /\ users # {}

\* C16: a castVote call that finds no session document returns at once and
\* without error, and none of its steps creates the document, writes a vote,
\* appends an activity or changes anything else in the store.
C16_CastVoteWithoutSessionIsNoOp ==
  [][ \A u \in StepUsers :
        /\ (pc[u] = "idle" /\ pc'[u] \in CastPositions /\ ~exists) =>
             /\ pc'[u] = "castNoSession"
             /\ UNCHANGED <<storeVars, docVars>>
        /\ (pc[u] = "castNoSession" /\ pc'[u] # pc[u]) =>
             /\ pc'[u] = "idle"
             /\ UNCHANGED <<storeVars, docVars>> ]_vars

\* A castVote call has found no document and is about to return; there is
\* still no document, no vote and no activity.
C16_Witness ==
  \E u \in StepUsers :
    /\ pc[u] = "castNoSession" /\ local[u].category = "cuisine"
    /\ ~exists /\ votes = EmptyVotes /\ activities = <<>>

\* This step is a step of a joinSession call of client u.
IsJoinSessionStep(u) ==
  /\ pc'[u] # pc[u]
  /\ pc[u] \in JoinPositions \/ pc'[u] \in JoinPositions

\* C17: joinSession creates the session document only if it is absent: for
\* every interleaving of the steps of the clients' calls, once the document
\* exists no step of a joinSession call changes its ownerId, its vote ledger
\* or its locked flag.
C17_JoinNeverResetsSession ==
  [][ \A u \in StepUsers :
        (exists /\ IsJoinSessionStep(u)) =>
          /\ ownerId' = ownerId
          /\ votes' = votes
          /\ locked' = locked ]_vars

\* C18: in the stored session document locked is false at creation, and
\* once it is true it is true in every later state, whatever calls the
\* clients run.
C18_LockedNeverReverts ==
  [][ /\ (~exists /\ exists') => ~locked'
      /\ locked => locked' ]_vars

\* ----------------------------------------------------------------- setWinner
\* The arguments setWinner is called with: a restaurant id and a reason, or
\* no reason.
WinnerReasons == {"Most voted by the group!", "Randomly selected tie-breaker", Undefined}

\* setWinner: updateDoc(sessionRef, {winnerId, winningReason: reason ||
\* 'Group Consensus'}); on a missing document the update rejects.
SetWinner(id, reason) ==
  /\ exists
  /\ winnerId' = id
  /\ winningReason' = (IF Truthy(reason) THEN reason ELSE "Group Consensus")
  /\ UNCHANGED <<storeVars, gwVars, lobbyVars, consensus, finishedUsers,
                 clientVars>>

\* The likes lists of the ledgers the winner specification starts from.
LikesLists ==
  { <<>>, << SwipeEntry("alice") >>, << SwipeEntry("alice"), SwipeEntry("bob") >> }

\* A session that alice and bob have joined and swiped in: every restaurant
\* of the ledger holds the likes of alice, of both, or of nobody (a dislike
\* of alice then), and the restaurants may have been saved.
InitWinner ==
  /\ exists = TRUE
  /\ ownerId = "alice"
  /\ users = {"alice", "bob"}
  /\ userDocs = users
  /\ votes = EmptyVotes
  /\ locked = FALSE
  /\ \E swiped \in SUBSET RestaurantIds :
       \E likes \in [swiped -> LikesLists] :
         /\ swipes = [r \in swiped |->
                        [likes |-> likes[r],
                         dislikes |-> IF likes[r] = <<>>
                                        THEN << SwipeEntry("alice") >> ELSE <<>>]]
         /\ lastSwipe = [r \in RestaurantIds |-> [u \in Users |->
              IF r \notin swiped \/ u = "carol" THEN "none"
              ELSE IF \E i \in 1..Len(likes[r]) : likes[r][i].userId = u THEN "right"
              ELSE IF u = "alice" THEN "left" ELSE "none"]]
  /\ sharedRestaurants \in RestaurantLists \cup {<<>>}
  /\ activities =
       << [type |-> "join", user |-> UserName("alice"), message |-> "joined the session"],
          [type |-> "join", user |-> UserName("bob"), message |-> "joined the session"] >>
  /\ GwInit
  /\ LobbyInit
  /\ DocInit
  /\ ClientInit

NextWinner ==
  \/ GetGroupWinner
  \/ \E resp \in TieBreakResponses : ResolveTieSettles(resp)
  \/ GetGroupWinnerResume
  \/ GetGroupWinnerDone
  \/ \E id \in RestaurantIds, reason \in WinnerReasons : SetWinner(id, reason)

\* Winner resolution and the persisting of a winner on a swiped session.
SpecWinner == InitWinner /\ [][NextWinner]_vars

\* The event loop runs every continuation of getGroupWinner that is ready;
\* no code calls setWinner, so nothing schedules it.
FairWinner ==
  /\ SpecWinner
  /\ WF_vars(GetGroupWinnerResume)
  /\ WF_vars(GetGroupWinnerDone)

\* ------------------------------------------------------------ C19 .. C20
\* C19: the winner record is written once: after winnerId has first been
\* set, no later setWinner call by any client changes winnerId or
\* winningReason to a different value.
C19_WinnerWrittenOnce ==
  [][ winnerId # Undefined =>
        /\ winnerId' = winnerId
        /\ winningReason' = winningReason ]_vars

\* The values getGroupWinner can return as a winner.
WinnerResults ==
  { [restaurantId |-> id, likeCount |-> n, reason |-> reason] :
      id \in ServiceIds, n \in 1..2,
      reason \in {"Most voted by the group!", "Randomly selected tie-breaker",
                  "Best match for the group", "Selected by AI tie-breaker"} }

\* C20: when getGroupWinner has returned a winner, the session document's
\* winnerId is afterwards that restaurantId and its winningReason the reason
\* that was returned.
C20_WinnerPersisted ==
  \A result \in WinnerResults :
    (gwPc = "returned" /\ gwResult = result)
      ~> (winnerId = result.restaurantId /\ winningReason = result.reason)

\* ------------------------------------------------------------ leaveSession
\* The cleanup of LobbyScreen's effect calls leaveSession once, whatever the
\* client's other call is doing.  A cleanup goes on to position p with local
\* variables l.
LeaveGoto(u, p, l) ==
  /\ leavePc' = [leavePc EXCEPT ![u] = p]
  /\ leaveLocal' = [leaveLocal EXCEPT ![u] = l]
  /\ UNCHANGED <<pc, local, calls, viewVars, secondVars, appVars, roomVars>>

\* leaveSession, removeUserFromMainDoc: const sessionDoc = await
\* getDoc(sessionRef).
LeaveSessionGetDoc(u) ==
  /\ leavePc[u] = "idle"
  /\ LeaveGoto(u, IF exists THEN "leaveUpdate" ELSE "leaveDeleteUser",
               [NoLocal EXCEPT !.docExists = exists, !.currentUsers = users])
  /\ UNCHANGED <<storeVars, gwVars, lobbyVars, docVars>>

\* The users map removeUserFromMainDoc writes keeps every user it has read.
RemoveNobody(currentUsers, userId) == currentUsers

\* delete currentUsers[userId]
RemoveUser(currentUsers, userId) == currentUsers \ {userId}

\* removeUserFromMainDoc: delete currentUsers[userId];
\* await updateDoc(sessionRef, {users: currentUsers}).  On a document that
\* has gone the update rejects and leaveSession's catch rethrows.
LeaveSessionUpdate(u) ==
  /\ leavePc[u] = "leaveUpdate"
  /\ IF ~exists
       THEN /\ LeaveGoto(u, "left", NoLocal)
            /\ UNCHANGED <<storeVars, gwVars, lobbyVars, docVars>>
       ELSE /\ users' = RemoveUser(leaveLocal[u].currentUsers, u)
            /\ LeaveGoto(u, "leaveDeleteUser", leaveLocal[u])
            /\ UNCHANGED <<exists, ownerId, votes, locked, swipes,
                           sharedRestaurants, userDocs, activities, lastSwipe,
                           gwVars, lobbyVars, docVars>>

\* await deleteDoc(userRef), and the return.
LeaveSessionDeleteUser(u) ==
  /\ leavePc[u] = "leaveDeleteUser"
  /\ userDocs' = userDocs \ {u}
  /\ LeaveGoto(u, "left", NoLocal)
  /\ UNCHANGED <<exists, ownerId, users, votes, locked, swipes, sharedRestaurants,
                 activities, lastSwipe, gwVars, lobbyVars, docVars>>

\* --------------------------------------------------- the lobby's three streams
\* The largest timestamp, the number of activity documents of the drawn
\* collection and the cap on the client's local activity list.
MaxStamp == 2
MaxFeed == 2
MaxLocal == 2

\* The client whose LobbyScreen is observed, and the other client.
Viewer == "alice"
Other == "bob"

\* The i-th document of rooms/<code>/events, written at client time t:
\* {type, userName, message, timestamp: Date.now()} under a generated id.
FeedDoc(i, t) ==
  IF i % 2 = 1
    THEN [id |-> i, type |-> "join", user |-> UserName(Other),
          message |-> "joined the session", timestamp |-> t]
    ELSE [id |-> i, type |-> "preference", user |-> UserName(Other),
          message |-> <<"voted for", "Italian", "cuisine">>, timestamp |-> t]

\* The collections drawn: the other client's "join" document and up to
\* MaxFeed documents in all, in append order, each with the clock reading of
\* the client that wrote it.
Feeds ==
  UNION { { [i \in 1..n |-> FeedDoc(i, stamps[i])] : stamps \in [1..n -> 1..MaxStamp] }
          : n \in 1..MaxFeed }

\* The orders a snapshot can list n documents in.
Orders(n) == { f \in [1..n -> 1..n] : \A i, j \in 1..n : f[i] = f[j] => i = j }

\* snapshot.forEach(doc => activities.push({id: doc.id, ...doc.data()}))
SnapshotList(docs, order) == [i \in 1..Len(docs) |-> docs[order[i]]]

\* The entry goes after every entry that is not younger than it: the
\* comparator's sign decides, equal timestamps keep their order.
RECURSIVE InsertByTimestamp(_, _)
InsertByTimestamp(sorted, e) ==
  IF sorted = <<>> THEN <<e>>
  ELSE IF e.timestamp - Head(sorted).timestamp < 0
         THEN <<e>> \o sorted
         ELSE <<Head(sorted)>> \o InsertByTimestamp(Tail(sorted), e)

\* The list is delivered in the order of the snapshot.
SortNothing(list) == list

\* activities.sort((a, b) => a.timestamp - b.timestamp): Array.prototype.sort
\* is stable.
RECURSIVE SortByTimestamp(_)
SortByTimestamp(list) ==
  IF list = <<>> THEN <<>>
  ELSE InsertByTimestamp(SortByTimestamp(SubSeq(list, 1, Len(list) - 1)),
                         list[Len(list)])

\* LobbyScreen's activities.map(act => ({id: act.timestamp, type: act.type,
\* user: act.userName, message: act.message, timestamp: new Date(act.timestamp)}))
FormatActivity(act) ==
  [id |-> act.timestamp, type |-> act.type, user |-> act.user,
   message |-> act.message, timestamp |-> act.timestamp]

\* The reading of the client's own clock, Date.now().
LocalNow == MaxStamp

\* {id: Date.now(), type, user: 'You', message, timestamp: new Date()}
LocalActivity(type, message) ==
  [id |-> LocalNow, type |-> type, user |-> "You", message |-> message,
   timestamp |-> LocalNow]

\* The effect on [locked]: when locked has become true a 'ready' entry is
\* appended to the local list.
AfterLockedEffect(list, before, after) ==
  IF after /\ ~before
    THEN Append(list, LocalActivity("ready", <<"locked preferences and is ready!">>))
    ELSE list

\* The messages addActivity is called with.
LocalMessages == { <<"prefers", "Italian", "cuisine">> }

\* subscribeToActivities' listener and LobbyScreen's callback: the snapshot's
\* documents in the snapshot's order, sorted, delivered, formatted and set as
\* the local list.
ActivitiesPush ==
  \E order \in Orders(Len(activities)) :
    LET delivered == SortByTimestamp(SnapshotList(activities, order))
    IN /\ localActivities' = [i \in 1..Len(delivered) |-> FormatActivity(delivered[i])]
       /\ pushed' = [pushed EXCEPT !.activities = << delivered >>]
       /\ UNCHANGED <<storeVars, gwVars, lobbyVars, docVars, pc, local, calls,
                      localLocked, onlineUsers, leaveVars, secondVars, appVars, roomVars>>

\* subscribeToUsers' listener and LobbyScreen's callback:
\* setOnlineUsers(users).
UsersPush ==
  /\ onlineUsers' = userDocs
  /\ pushed' = [pushed EXCEPT !.users = << [stream |-> "users", ids |-> userDocs] >>]
  /\ UNCHANGED <<storeVars, gwVars, lobbyVars, docVars, pc, local, calls,
                 localActivities, localLocked, leaveVars, secondVars, appVars, roomVars>>

\* if (data.users) { usersArray = Object.values(data.users);
\* if (usersArray.length > 0) setOnlineUsers(usersArray) }
SessionUsers(usersArray, current) ==
  IF usersArray # {} THEN usersArray ELSE current

\* The pushed locked flag is ignored.
SessionLockedIgnored(dataLocked, current) == current

\* if (data.locked !== undefined) setLocked(data.locked)
SessionLocked(dataLocked, current) == dataLocked

\* subscribeToSession's listener (the document exists) and LobbyScreen's
\* callback: votes, locked and users of the pushed document, then the effect
\* on [locked].
SessionPush ==
  /\ exists
  /\ (locked /\ ~localLocked) => Len(localActivities) < MaxLocal
  /\ userVotes' = votes
  /\ localLocked' = SessionLocked(locked, localLocked)
  /\ onlineUsers' = SessionUsers(users, onlineUsers)
  /\ localActivities' = AfterLockedEffect(localActivities, localLocked, localLocked')
  /\ pushed' = [pushed EXCEPT
       !.session = << [votes |-> votes, locked |-> locked] >>,
       !.users = << [stream |-> "session", ids |-> users] >>,
       !.activities = IF localActivities' = localActivities THEN @ ELSE <<>>]
  /\ UNCHANGED <<storeVars, gwVars, selection, merged, docVars, pc, local,
                 calls, leaveVars, secondVars, appVars, roomVars>>

\* addActivity(message): setActivities(prev => [...prev, newActivity])
AddActivity(message) ==
  /\ Len(localActivities) < MaxLocal
  /\ localActivities' = Append(localActivities, LocalActivity("preference", message))
  /\ pushed' = [pushed EXCEPT !.activities = <<>>]
  /\ UNCHANGED <<storeVars, gwVars, lobbyVars, docVars, pc, local, calls,
                 localLocked, onlineUsers, leaveVars, secondVars, appVars, roomVars>>

\* The Lock Preferences button: onClick={() => setLocked(true)}, then the
\* effect on [locked].  Nothing is written to the store.
LockButton ==
  /\ ~localLocked
  /\ Len(localActivities) < MaxLocal
  /\ localLocked' = TRUE
  /\ localActivities' = AfterLockedEffect(localActivities, localLocked, TRUE)
  /\ pushed' = [pushed EXCEPT !.session = <<>>, !.activities = <<>>]
  /\ UNCHANGED <<storeVars, gwVars, lobbyVars, docVars, pc, local, calls,
                 onlineUsers, leaveVars, secondVars, appVars, roomVars>>

\* The other client has created the session, joined, voted; the observed
\* client has mounted its LobbyScreen and its own joinSession has written the
\* users map or has not yet.
InitLobby ==
  /\ exists = TRUE
  /\ ownerId = Other
  /\ users \in { {Other}, {Other, Viewer} }
  /\ userDocs = users
  /\ votes = [EmptyVotes EXCEPT !["cuisine"] = [Italian |-> <<UserVote(Other)>>]]
  /\ locked = FALSE
  /\ swipes = EmptyObject
  /\ sharedRestaurants = <<>>
  /\ activities \in Feeds
  /\ lastSwipe = [r \in RestaurantIds |-> [u \in Users |-> "none"]]
  /\ GwInit /\ LobbyInit /\ DocInit /\ ClientInit

NextLobby ==
  \/ ActivitiesPush
  \/ UsersPush
  \/ SessionPush
  \/ \E message \in LocalMessages : AddActivity(message)
  \/ LockButton
  \/ \E p \in LockInputs : ~locked /\ LockPreferences(p, Other)
  \/ LeaveSessionGetDoc(Other)
  \/ LeaveSessionUpdate(Other)
  \/ LeaveSessionDeleteUser(Other)

\* One LobbyScreen and its three subscriptions, while the other client locks
\* the preferences and leaves.
SpecLobby == InitLobby /\ [][NextLobby]_vars

\* The list is in ascending order of timestamp.
AscendingByTimestamp(list) ==
  \A i, j \in 1..Len(list) : i < j => list[i].timestamp <= list[j].timestamp

\* The list holds each document of the collection once, and nothing else.
SameDocuments(list, docs) ==
  /\ Len(list) = Len(docs)
  /\ \A k \in 1..Len(docs) :
       \E i \in 1..Len(list) : /\ list[i].id = docs[k].id
                               /\ list[i].timestamp = docs[k].timestamp

\* C21: every list subscribeToActivities delivers to its callback holds the
\* documents of the collection in ascending order of timestamp, whatever the
\* order they were appended in and whatever the order the snapshot lists them in.
C21_DeliveredSortedByTimestamp ==
  pushed.activities # <<>> =>
    /\ AscendingByTimestamp(pushed.activities[1])
    /\ SameDocuments(pushed.activities[1], activities)

\* A list has been delivered for a collection whose younger document was
\* appended first.
C21_Witness ==
  /\ pushed.activities # <<>>
  /\ Len(activities) >= 2
  /\ activities[1].timestamp > activities[2].timestamp
  /\ pushed.activities[1][1].id = activities[2].id

\* The local activity list is the delivered list, entry by entry.
LocalActivitiesAre(list) ==
  /\ Len(localActivities) = Len(list)
  /\ \A i \in 1..Len(list) :
       /\ localActivities[i].id = list[i].timestamp
       /\ localActivities[i].timestamp = list[i].timestamp
       /\ localActivities[i].type = list[i].type
       /\ localActivities[i].user = list[i].user
       /\ localActivities[i].message = list[i].message

\* The local votes and the local locked flag are those of the pushed document.
LocalSessionIs(data) ==
  /\ userVotes = data.votes
  /\ localLocked = data.locked

\* C25 as stated: after each pushed snapshot the local state of the stream is
\* the content of the snapshot and nothing else: the local activities are the
\* pushed list, the local votes and locked flag the pushed ones, the local
\* user list the users of the push.
C25_LocalStateIsThePush ==
  /\ pushed.activities # <<>> => LocalActivitiesAre(pushed.activities[1])
  /\ pushed.session # <<>> => LocalSessionIs(pushed.session[1])
  /\ pushed.users # <<>> => onlineUsers = pushed.users[1].ids

\* C25, amended: as stated for the activities, the votes and the locked flag;
\* the local user list is the users of the push unless the push is a session
\* document whose users map is empty, which leaves the list as it was.
C25_LocalStateIsThePushUnlessNoUsers ==
  /\ pushed.activities # <<>> => LocalActivitiesAre(pushed.activities[1])
  /\ pushed.session # <<>> => LocalSessionIs(pushed.session[1])
  /\ pushed.users # <<>> =>
       \/ onlineUsers = pushed.users[1].ids
       \/ pushed.users[1].stream = "session" /\ pushed.users[1].ids = {}

\* The three streams have pushed; the latest session document had an empty
\* users map and the local user list still shows a user.
C25_Witness ==
  /\ pushed.activities # <<>> /\ Len(pushed.activities[1]) > 0
  /\ pushed.session # <<>> /\ pushed.session[1].locked
  /\ pushed.users # <<>>
  /\ pushed.users[1].stream = "session" /\ pushed.users[1].ids = {}
  /\ onlineUsers # {}

\* C26: the client's local locked flag, once true, never becomes false again,
\* whatever snapshots are pushed.
C26_LocalLockedNeverReverts ==
  [][localLocked => localLocked']_vars

\* ------------------------------------------------- a session from end to end
\* The castVote calls (category cuisine) each participant makes, in the
\* participant's order, and the swipes each participant makes on each
\* restaurant, in the participant's order.
CastScript ==
  [alice |-> <<"Italian">>, bob |-> <<"Japanese", "Italian">>, carol |-> <<"Italian">>]
SwipeScript ==
  [alice |-> [R1 |-> <<"right">>, R2 |-> <<"left", "right">>],
   bob |-> [R1 |-> <<"right">>, R2 |-> <<>>],
   carol |-> [R1 |-> <<"right">>, R2 |-> <<>>]]

\* No client is inside a call.
AllIdle == \A u \in Users : pc[u] = "idle"

\* The number of swipes user u has made on restaurant r: the position of the
\* latest one in the user's script.
SwipesMade(u, r) ==
  IF lastSwipe[r][u] = "none" THEN 0
  ELSE CHOOSE i \in 1..Len(SwipeScript[u][r]) : SwipeScript[u][r][i] = lastSwipe[r][u]

\* The participant's next castVote call, started when no other call runs.
ScenarioCastVote(u) ==
  /\ AllIdle
  /\ calls[u] < Len(CastScript[u])
  /\ CastVoteGetDoc("cuisine", CastScript[u][calls[u] + 1], u)

\* The participant's next swipe on the restaurant, made when no call runs.
ScenarioSwipe(u, r) ==
  /\ AllIdle
  /\ SwipesMade(u, r) < Len(SwipeScript[u][r])
  /\ SwipeRestaurant(r, SwipeScript[u][r][SwipesMade(u, r) + 1], u)

\* Alice, Bob and Carol have joined, one joinSession call after the other.
InitScenario ==
  /\ exists = TRUE
  /\ ownerId = "alice"
  /\ users = Users
  /\ userDocs = Users
  /\ votes = EmptyVotes
  /\ locked = FALSE
  /\ swipes = EmptyObject
  /\ sharedRestaurants = <<>>
  /\ activities = << [type |-> "join", user |-> UserName("alice"),
                      message |-> "joined the session"],
                     [type |-> "join", user |-> UserName("bob"),
                      message |-> "joined the session"],
                     [type |-> "join", user |-> UserName("carol"),
                      message |-> "joined the session"] >>
  /\ lastSwipe = [r \in RestaurantIds |-> [u \in Users |-> "none"]]
  /\ GwInit /\ LobbyInit /\ DocInit /\ ClientInit

NextScenario ==
  \/ \E u \in Users : ScenarioCastVote(u)
  \/ \E u \in Users : CastVoteUpdate(u)
  \/ \E u \in Users : CastVoteAddActivity(u)
  \/ \E u \in Users, r \in RestaurantIds : ScenarioSwipe(u, r)
  \/ GetGroupWinner
  \/ GetGroupWinnerDone

\* The participants make the calls of their scripts one call at a time, in
\* any order among the participants; the resolver is called at any moment.
SpecScenario == InitScenario /\ [][NextScenario]_vars

\* The calls each participant has completed.
CastsDone(a, b, c) ==
  /\ AllIdle
  /\ calls["alice"] = a /\ calls["bob"] = b /\ calls["carol"] = c

\* The ids of the voters stored for a cuisine.
CuisineVoters(o) ==
  IF o \in DOMAIN votes["cuisine"]
    THEN {votes["cuisine"][o][k].userId : k \in 1..Len(votes["cuisine"][o])}
    ELSE {}

\* Every swipe of the scripts has been made.
AllSwiped ==
  \A u \in Users, r \in RestaurantIds : SwipesMade(u, r) = Len(SwipeScript[u][r])

\* C22: after Alice, Bob and Carol have joined and voted cuisine Italian,
\* Japanese, Italian the merged cuisine is Italian; after Bob's second vote,
\* for Italian, it is Italian with three voters and Japanese with none; after
\* all three have swiped right on R1 and Alice left and then right on R2, R1
\* has three likes, R2 one, and the resolver returns R1 with the reason "Most
\* voted by the group!".
C22_EndToEnd ==
  /\ CastsDone(1, 1, 1) =>
       /\ getMergedPreferences(votes, InitialSelection).cuisine = <<"Italian">>
       /\ CuisineVoters("Italian") = {"alice", "carol"}
       /\ CuisineVoters("Japanese") = {"bob"}
  /\ CastsDone(1, 2, 1) =>
       /\ getMergedPreferences(votes, InitialSelection).cuisine = <<"Italian">>
       /\ CuisineVoters("Italian") = {"alice", "bob", "carol"}
       /\ Len(votes["cuisine"]["Italian"]) = 3
       /\ CuisineVoters("Japanese") = {}
  /\ AllSwiped =>
       /\ Len(swipes["R1"].likes) = 3
       /\ Len(swipes["R2"].likes) = 1
  /\ AllSwiped /\ gwPc = "returned" =>
       gwResult = [restaurantId |-> "R1", likeCount |-> 3,
                   reason |-> "Most voted by the group!"]

\* Every call of the scripts has been made and the resolver has returned.
C22_Witness ==
  /\ CastsDone(1, 2, 1)
  /\ AllSwiped
  /\ gwPc = "returned"

\* ------------------------------------------- castVote calls that interleave
\* The third participant, whose vote is in the ledger before the calls.
Bystander == "carol"

\* The three participants have joined, one call after the other, and the
\* third has voted cuisine Italian.
InitVotes ==
  /\ exists = TRUE
  /\ ownerId = "alice"
  /\ users = Users
  /\ userDocs = Users
  /\ votes = [EmptyVotes EXCEPT !["cuisine"] = [Italian |-> <<UserVote(Bystander)>>]]
  /\ locked = FALSE
  /\ swipes = EmptyObject
  /\ sharedRestaurants = <<>>
  /\ activities = << [type |-> "join", user |-> UserName("alice"),
                      message |-> "joined the session"],
                     [type |-> "join", user |-> UserName("bob"),
                      message |-> "joined the session"],
                     [type |-> "join", user |-> UserName("carol"),
                      message |-> "joined the session"],
                     [type |-> "preference", user |-> UserName(Bystander),
                      message |-> <<"voted for", "Italian", "cuisine">>] >>
  /\ lastSwipe = [r \in RestaurantIds |-> [u \in Users |-> "none"]]
  /\ GwInit /\ LobbyInit /\ DocInit /\ ClientInit

NextVotes ==
  \/ \E in \in StepCastInputs, u \in StepUsers : CastVoteGetDoc(in[1], in[2], u)
  \/ \E u \in StepUsers : CastVoteUpdate(u)
  \/ \E u \in StepUsers : CastVoteAddActivity(u)

\* The castVote calls of two clients on an existing session, split at their
\* awaits and interleaved.
SpecVotes == InitVotes /\ [][NextVotes]_vars

\* ------------------------------------------------------------- C23, C24
\* The ids of the voters stored for option o of category c in ledger l.
VotersAt(l, c, o) ==
  IF o \in DOMAIN l[c] THEN {l[c][o][k].userId : k \in 1..Len(l[c][o])} ELSE {}

\* The castVote calls of user u that have written, oldest first: the calls
\* the activity log records and the call that has written and not yet logged.
WrittenCasts(u) ==
  LET logged == SelectSeq(activities,
                  LAMBDA e : e.type = "preference" /\ e.user = UserName(u))
      done == [i \in 1..Len(logged) |->
                 [category |-> logged[i].message[3], value |-> logged[i].message[2]]]
  IN IF pc[u] = "castAddActivity"
       THEN Append(done, [category |-> local[u].category, value |-> local[u].value])
       ELSE done

\* User u has called castVote in category c (the call may still be running).
HasCastIn(u, c) ==
  \/ \E i \in 1..Len(WrittenCasts(u)) : WrittenCasts(u)[i].category = c
  \/ pc[u] = "castUpdate" /\ local[u].category = c

\* C23: castVote calls of two different users in two different categories
\* never lose a vote, however their reads and writes interleave: the latest
\* vote a user has written in a category the other user has not voted in is
\* in the ledger.
C23_DifferentCategoriesKeepBothVotes ==
  \A u \in StepUsers : \A w \in StepUsers \ {u} : \A c \in Categories :
    LET mine == SelectSeq(WrittenCasts(u), LAMBDA x : x.category = c)
    IN (Len(mine) > 0 /\ ~HasCastIn(w, c)) =>
         u \in VotersAt(votes, c, mine[Len(mine)].value)

\* Both users have written, in different categories, after both had read the
\* ledger as it was before either wrote; both votes are in the ledger.
C23_Witness ==
  /\ pc["alice"] = "castAddActivity" /\ pc["bob"] = "castAddActivity"
  /\ local["alice"].category = "cuisine" /\ local["bob"].category = "budget"
  /\ local["alice"].dataVotes = local["bob"].dataVotes
  /\ "alice" \in VotersAt(votes, "cuisine", local["alice"].value)
  /\ "bob" \in VotersAt(votes, "budget", local["bob"].value)
  /\ calls["alice"] = 1 /\ calls["bob"] = 1

\* User u writes (the step from castUpdate to castAddActivity).
IsCastWrite(u) == pc[u] = "castUpdate" /\ pc'[u] = "castAddActivity"

\* C24: when the castVote calls of two users on the same category interleave
\* so that both read before either writes, the vote of the user who writes
\* last is in the ledger after that write (so at most one of the two new
\* votes is missing), and so is every vote of a third user that both reads
\* held.
C24_SameCategoryLastWriterWins ==
  [][ \A u \in StepUsers : \A w \in StepUsers \ {u} :
        ( /\ IsCastWrite(u)
          /\ pc[w] = "castAddActivity"
          /\ local[w].category = local[u].category
          /\ local[w].dataVotes = local[u].dataVotes )
        => LET c == local[u].category
           IN /\ u \in VotersAt(votes', c, local[u].value)
              /\ \A o \in DOMAIN local[u].dataVotes[c] :
                   \A t \in VotersAt(local[u].dataVotes, c, o) \ {u, w} :
                     t \in VotersAt(votes', c, o) ]_vars

\* Both users have written in the same category after reading the same
\* ledger; the first writer's vote is missing, the third user's is there.
C24_Witness ==
  \E u \in StepUsers : \E w \in StepUsers \ {u} :
    /\ pc[u] = "castAddActivity" /\ pc[w] = "castAddActivity"
    /\ local[u].category = "cuisine" /\ local[w].category = "cuisine"
    /\ local[u].dataVotes = local[w].dataVotes
    /\ calls[u] = 1 /\ calls[w] = 1
    /\ u \in VotersAt(votes, "cuisine", local[u].value)
    /\ w \notin VotersAt(votes, "cuisine", local[w].value)
    /\ Bystander \in VotersAt(votes, "cuisine", "Italian")

\* --------------------------------------------- joinSession and leaveSession
\* LobbyScreen's effect calls joinSession without awaiting it; its cleanup
\* calls leaveSession, whether or not the joinSession call has returned.
CleanupLeaveSession(u) ==
  /\ calls[u] >= 1
  /\ LeaveSessionGetDoc(u)

\* No session yet, or the session as the third participant's joinSession has
\* left it.
InitJoinLeave ==
  /\ exists \in BOOLEAN
  /\ ownerId = (IF exists THEN "carol" ELSE Undefined)
  /\ users = (IF exists THEN {"carol"} ELSE {})
  /\ userDocs = users
  /\ votes = EmptyVotes
  /\ locked = FALSE
  /\ swipes = EmptyObject
  /\ sharedRestaurants = <<>>
  /\ activities = (IF exists
                     THEN << [type |-> "join", user |-> UserName("carol"),
                              message |-> "joined the session"] >>
                     ELSE <<>>)
  /\ lastSwipe = [r \in RestaurantIds |-> [u \in Users |-> "none"]]
  /\ GwInit /\ LobbyInit /\ DocInit /\ ClientInit

NextJoinLeave ==
  \/ \E u \in StepUsers : JoinSessionGetDoc(u)
  \/ \E u \in StepUsers : JoinSessionSetDoc(u)
  \/ \E u \in StepUsers : JoinSessionAddUserGet(u)
  \/ \E u \in StepUsers : JoinSessionAddUserUpdate(u)
  \/ \E u \in StepUsers : JoinSessionSetUser(u)
  \/ \E u \in StepUsers : JoinSessionAddActivity(u)
  \/ \E u \in StepUsers : CleanupLeaveSession(u)
  \/ \E u \in StepUsers : LeaveSessionUpdate(u)
  \/ \E u \in StepUsers : LeaveSessionDeleteUser(u)

\* The joinSession and leaveSession calls of two clients, split at their
\* awaits and interleaved; a client's leaveSession may overlap its own
\* joinSession.
SpecJoinLeave == InitJoinLeave /\ [][NextJoinLeave]_vars

\* ------------------------------------------------------------- C27 .. C29
\* The number of "join" activities of user u.
JoinActivities(u) ==
  Cardinality({i \in 1..Len(activities) :
                 activities[i].type = "join" /\ activities[i].user = UserName(u)})

\* C27: once the joinSession calls of distinct users have all completed,
\* however they interleaved, every user that called is in the users map and
\* in the users sub-collection, and the activity log holds exactly one "join"
\* entry per call.
C27_EveryJoinerPresent ==
  (AllIdle /\ \A u \in Users : leavePc[u] = "idle") =>
    \A u \in StepUsers :
      calls[u] >= 1 =>
        /\ u \in users
        /\ u \in userDocs
        /\ JoinActivities(u) = calls[u]

\* C28: when a client leaves while its own joinSession is in flight, the user
\* is in neither the users map nor the users sub-collection once both calls
\* have completed (no other client calling).
C28_LeaverAbsent ==
  \A u \in StepUsers :
    ( /\ calls[u] = 1 /\ pc[u] = "idle" /\ leavePc[u] = "left"
      /\ \A w \in StepUsers \ {u} : calls[w] = 0 )
    => (u \notin users /\ u \notin userDocs)

\* User u's leaveSession takes a step.
IsLeaveStep(u) == leavePc'[u] # leavePc[u]

\* C29: a leaveSession(u) call that no other writer of the users map runs
\* into removes u, and only u, from the users map and from the users
\* sub-collection, and leaves the vote ledger, the swipe ledger,
\* finishedUsers, locked and ownerId as they were: the votes u has cast are
\* still counted.
C29_LeaveRemovesOnlyTheUser ==
  [][ \A u \in Users :
        IsLeaveStep(u) =>
          /\ votes' = votes /\ swipes' = swipes /\ finishedUsers' = finishedUsers
          /\ locked' = locked /\ ownerId' = ownerId
          /\ leavePc[u] = "idle" => (users' = users /\ userDocs' = userDocs)
          /\ leavePc[u] = "leaveUpdate" =>
               (users' = users \ {u} /\ userDocs' = userDocs)
          /\ leavePc[u] = "leaveDeleteUser" =>
               (users' = users /\ userDocs' = userDocs \ {u}) ]_vars

\* The other client has left: it is in neither the map nor the sub-collection,
\* the observed client is in both, and the vote it cast is in the ledger.
C29_Witness ==
  /\ leavePc[Other] = "left"
  /\ users = {Viewer} /\ userDocs = {Viewer}
  /\ Other \in VotersAt(votes, "cuisine", "Italian")
  /\ locked

\* -------------------------------------- swipeRestaurant calls that interleave
\* The swipeRestaurant calls of the two clients: each swipes on a restaurant
\* of its own.
SwipeStepInputs ==
  { [restaurantId |-> "R1", userId |-> "alice"],
    [restaurantId |-> "R2", userId |-> "bob"] }

\* swipeRestaurant up to its await and the read it waits for: const docSnap =
\* await getDoc(sessionRef); const swipes = data.swipes || {}.  Without a
\* document the call returns.
SwipeRestaurantGetDoc(restaurantId, direction, u) ==
  /\ Start(u, IF exists THEN "swipeUpdate" ELSE "idle",
           IF exists
             THEN [NoLocal EXCEPT !.docExists = TRUE, !.dataSwipes = swipes,
                                  !.restaurantId = restaurantId,
                                  !.direction = direction]
             ELSE NoLocal)
  /\ UNCHANGED <<storeVars, gwVars, lobbyVars, docVars>>

\* The swipes object that was read, with the user's previous swipe on the
\* restaurant filtered out and the new one pushed.
SwipesToWrite(dataSwipes, restaurantId, direction, userId) ==
  LET old == IF restaurantId \in DOMAIN dataSwipes
               THEN dataSwipes[restaurantId]
               ELSE [likes |-> <<>>, dislikes |-> <<>>]
      likes == FilterLikes(old.likes, userId)
      dislikes == FilterDislikes(old.dislikes, userId)
      new == IF direction = "right"
               THEN [likes |-> Append(likes, SwipeEntry(userId)),
                     dislikes |-> dislikes]
               ELSE [likes |-> likes,
                     dislikes |-> Append(dislikes, SwipeEntry(userId))]
  IN [r \in (DOMAIN dataSwipes) \cup {restaurantId} |->
        IF r = restaurantId THEN new ELSE dataSwipes[r]]

\* await updateDoc(sessionRef, {swipes}): the field swipes of the stored
\* document is replaced by the object built from the read.  On a document
\* that has gone the update rejects.
SwipeRestaurantUpdate(u) ==
  /\ pc[u] = "swipeUpdate"
  /\ IF ~exists
       THEN UNCHANGED storeVars
       ELSE LET l == local[u]
            IN /\ swipes' = SwipesToWrite(l.dataSwipes, l.restaurantId, l.direction, u)
               /\ lastSwipe' = [lastSwipe EXCEPT ![l.restaurantId][u] = l.direction]
               /\ UNCHANGED <<exists, ownerId, users, votes, locked,
                              sharedRestaurants, userDocs, activities>>
  /\ Goto(u, "idle", NoLocal)
  /\ UNCHANGED <<gwVars, lobbyVars, docVars>>

\* Alice and Bob have joined, one call after the other; nobody has swiped.
InitSwipeSteps ==
  /\ exists = TRUE
  /\ ownerId = "alice"
  /\ users = {"alice", "bob"}
  /\ userDocs = users
  /\ votes = EmptyVotes
  /\ locked = FALSE
  /\ swipes = EmptyObject
  /\ sharedRestaurants = <<>>
  /\ activities = << [type |-> "join", user |-> UserName("alice"),
                      message |-> "joined the session"],
                     [type |-> "join", user |-> UserName("bob"),
                      message |-> "joined the session"] >>
  /\ lastSwipe = [r \in RestaurantIds |-> [u \in Users |-> "none"]]
  /\ GwInit /\ LobbyInit /\ DocInit /\ ClientInit

NextSwipeSteps ==
  \/ \E in \in SwipeStepInputs, d \in {"left", "right"} :
       SwipeRestaurantGetDoc(in.restaurantId, d, in.userId)
  \/ \E u \in StepUsers : SwipeRestaurantUpdate(u)

\* The swipeRestaurant calls of two clients on two different restaurants,
\* split at their await and interleaved.
SpecSwipeSteps == InitSwipeSteps /\ [][NextSwipeSteps]_vars

\* ------------------------------------------------------------------- C30
\* User u has an entry in the swipe ledger of restaurant r.
HasSwipe(r, u) ==
  /\ r \in DOMAIN swipes
  /\ \/ \E i \in 1..Len(swipes[r].likes) : swipes[r].likes[i].userId = u
     \/ \E i \in 1..Len(swipes[r].dislikes) : swipes[r].dislikes[i].userId = u

\* C30: when the swipeRestaurant calls of two different users on two
\* different restaurants interleave, both swipes are in the ledger after
\* both writes: every swipe a call has written is in the ledger once no call
\* is running.
C30_BothSwipesPresent ==
  AllIdle =>
    \A r \in RestaurantIds : \A u \in Users :
      lastSwipe[r][u] # "none" => HasSwipe(r, u)

\* ------------------------------------------------------- markUserFinished
\* currentFinished.includes(userId)
Includes(list, x) == \E i \in 1..Len(list) : list[i] = x

\* markUserFinished up to its await and the read it waits for: const
\* sessionDoc = await getDoc(sessionRef); const currentFinished =
\* sessionDoc.data().finishedUsers || [].  Without a document, or with the
\* user in the list, the call returns.
MarkUserFinishedGetDoc(u) ==
  /\ Start(u, IF exists /\ ~Includes(finishedUsers, u) THEN "finishUpdate" ELSE "idle",
           IF exists /\ ~Includes(finishedUsers, u)
             THEN [NoLocal EXCEPT !.docExists = TRUE,
                                  !.currentFinished = finishedUsers]
             ELSE NoLocal)
  /\ UNCHANGED <<storeVars, gwVars, lobbyVars, docVars>>

\* const updatedFinished = [...currentFinished, userId]
FinishedToWrite(stored, currentFinished, userId) == Append(currentFinished, userId)

\* await updateDoc(sessionRef, {finishedUsers: updatedFinished}), and the
\* return.  On a document that has gone the update rejects.
MarkUserFinishedUpdate(u) ==
  /\ pc[u] = "finishUpdate"
  /\ IF ~exists
       THEN UNCHANGED finishedUsers
       ELSE finishedUsers' =
              FinishedToWrite(finishedUsers, local[u].currentFinished, u)
  /\ Goto(u, "idle", NoLocal)
  /\ UNCHANGED <<storeVars, gwVars, lobbyVars, winnerId, winningReason, consensus>>

\* The three participants have joined, one call after the other; nobody has
\* finished swiping.
InitFinished ==
  /\ exists = TRUE
  /\ ownerId = "alice"
  /\ users = Users
  /\ userDocs = Users
  /\ votes = EmptyVotes
  /\ locked = FALSE
  /\ swipes = EmptyObject
  /\ sharedRestaurants = <<>>
  /\ activities = << [type |-> "join", user |-> UserName("alice"),
                      message |-> "joined the session"],
                     [type |-> "join", user |-> UserName("bob"),
                      message |-> "joined the session"],
                     [type |-> "join", user |-> UserName("carol"),
                      message |-> "joined the session"] >>
  /\ lastSwipe = [r \in RestaurantIds |-> [u \in Users |-> "none"]]
  /\ GwInit /\ LobbyInit /\ DocInit /\ ClientInit

NextFinished ==
  \/ \E u \in Users : MarkUserFinishedGetDoc(u)
  \/ \E u \in Users : MarkUserFinishedUpdate(u)

\* The markUserFinished calls of the participants, split at their await and
\* interleaved.
SpecFinished == InitFinished /\ [][NextFinished]_vars

\* ------------------------------------------------------------------- C31
\* The number of times user u is in finishedUsers.
TimesFinished(u) ==
  Cardinality({i \in 1..Len(finishedUsers) : finishedUsers[i] = u})

\* C31: once the markUserFinished calls have completed, however their reads
\* and writes interleaved and however often a user called, finishedUsers
\* holds every user that called exactly once.
C31_EveryCallerFinishedOnce ==
  AllIdle => \A u \in Users : calls[u] >= 1 => TimesFinished(u) = 1

\* ------------------------------------ two castVote calls of the same client
\* updateVote is called from the click handlers, which do not wait for the
\* call before: a client can have two castVote calls in flight.  The second
\* call goes on to position p with local variables l.
SecondGoto(u, p, l) ==
  /\ pc2' = [pc2 EXCEPT ![u] = p]
  /\ local2' = [local2 EXCEPT ![u] = l]
  /\ UNCHANGED <<pc, local, calls, viewVars, leaveVars, appVars, roomVars>>

\* The second castVote call up to its first await and the read it waits for.
SecondCastVoteGetDoc(category, value, u) ==
  /\ pc2[u] = "idle"
  /\ calls[u] < MaxCalls
  /\ pc2' = [pc2 EXCEPT ![u] =
       IF CastVoteReturnsAtOnce(exists) THEN "idle" ELSE "castUpdate"]
  /\ local2' = [local2 EXCEPT ![u] =
       IF CastVoteReturnsAtOnce(exists) THEN NoLocal
       ELSE [NoLocal EXCEPT !.docExists = exists, !.dataVotes = votes,
                            !.category = category, !.value = value]]
  /\ calls' = [calls EXCEPT ![u] = @ + 1]
  /\ UNCHANGED <<pc, local, viewVars, leaveVars, appVars, roomVars>>
  /\ UNCHANGED <<storeVars, gwVars, lobbyVars, docVars>>

\* The second call's updateDoc(sessionRef, {[`votes.${category}`]:
\* categoryVotes}).
SecondCastVoteUpdate(u) ==
  /\ pc2[u] = "castUpdate"
  /\ IF ~exists
       THEN /\ SecondGoto(u, "idle", NoLocal)
            /\ UNCHANGED <<storeVars, gwVars, lobbyVars, docVars>>
       ELSE LET l == local2[u]
                categoryVotes ==
                  AddNewVote(RemovePreviousVote(l.dataVotes[l.category], u),
                             l.value, u)
            IN /\ votes' = CastVoteWrite(votes, l.dataVotes, l.category, categoryVotes)
               /\ SecondGoto(u, "castAddActivity", l)
               /\ UNCHANGED <<exists, ownerId, users, locked, swipes,
                              sharedRestaurants, userDocs, activities, lastSwipe,
                              gwVars, lobbyVars, docVars>>

\* The second call's addDoc(activitiesRef, {type: 'preference', ...}), and
\* the return.
SecondCastVoteAddActivity(u) ==
  /\ pc2[u] = "castAddActivity"
  /\ activities' = Append(activities,
       [type |-> "preference", user |-> UserName(u),
        message |-> <<"voted for", local2[u].value, local2[u].category>>])
  /\ SecondGoto(u, "idle", NoLocal)
  /\ UNCHANGED <<exists, ownerId, users, votes, locked, swipes, sharedRestaurants,
                 userDocs, lastSwipe, gwVars, lobbyVars, docVars>>

\* The castVote calls of the client whose calls overlap, two options of one
\* category, and the option the other client votes for.
OverlapInputs == { <<"cuisine", "Italian">>, <<"cuisine", "Japanese">> }
OtherInputs == { <<"cuisine", "Japanese">> }

NextOverlap ==
  \/ \E in \in OverlapInputs : CastVoteGetDoc(in[1], in[2], Viewer)
  \/ \E in \in OtherInputs : CastVoteGetDoc(in[1], in[2], Other)
  \/ \E u \in StepUsers : CastVoteUpdate(u)
  \/ \E u \in StepUsers : CastVoteAddActivity(u)
  \/ \E in \in OverlapInputs : SecondCastVoteGetDoc(in[1], in[2], Viewer)
  \/ SecondCastVoteUpdate(Viewer)
  \/ SecondCastVoteAddActivity(Viewer)

\* The castVote calls of two clients on an existing session, split at their
\* awaits and interleaved, one of the clients with up to two calls in flight.
SpecOverlap == InitVotes /\ [][NextOverlap]_vars

\* ------------------------------------------------------------------- C32
\* The number of entries of user u in the lists of category c.
EntriesIn(c, u) ==
  LET n[os \in SUBSET (DOMAIN votes[c])] ==
        IF os = {} THEN 0
        ELSE LET o == CHOOSE x \in os : TRUE
             IN n[os \ {o}] +
                Cardinality({k \in 1..Len(votes[c][o]) : votes[c][o][k].userId = u})
  IN n[DOMAIN votes[c]]

\* C32: in every reachable state, however the reads and writes of the
\* castVote calls interleave (two calls of one user in flight included), each
\* user id is in at most one option list of a category, and at most once.
C32_OneVotePerUserAndCategory ==
  \A c \in Categories : \A u \in Users : EntriesIn(c, u) <= 1

\* Both calls of one user have written after both had read, for different
\* options, while the other user's call is between its read and its write.
C32_Witness ==
  \E u \in StepUsers : \E w \in StepUsers \ {u} :
    /\ pc[u] = "castAddActivity" /\ pc2[u] = "castAddActivity"
    /\ local[u].value # local2[u].value
    /\ local[u].dataVotes = local2[u].dataVotes
    /\ pc[w] = "castUpdate"
    /\ EntriesIn("cuisine", u) = 1


\* ------------------------------------------------------------------ C33
\* C33: once the locked flag of the session is true, no write of a castVote
\* call of any user changes the vote ledger.
C33_LockedLedgerFrozen ==
  [][ \A u \in StepUsers : (locked /\ IsCastWrite(u)) => votes' = votes ]_vars


\* ------------------------------------------------------- starting to swipe
\* handleStartSession(code): setSessionCode(code); setCurrentScreen('lobby')
HandleStartSession ==
  /\ currentScreen = "welcome"
  /\ currentScreen' = "lobby"
  /\ UNCHANGED <<storeVars, gwVars, lobbyVars, docVars, pc, local, calls,
                 viewVars, leaveVars, secondVars, appPreferences, prefResult,
                 roomVars>>

\* The Start Swiping button, shown in place of Lock Preferences once the
\* lobby's locked is true: onNavigate({cuisine, budget, vibe, dietary,
\* distance, ...}) with the lobby's own state, and App's handleStartSwiping:
\* setPreferences(prefs); setCurrentScreen('swipe').
StartSwiping ==
  /\ currentScreen = "lobby"
  /\ localLocked
  /\ appPreferences' = selection
  /\ currentScreen' = "swipe"
  /\ UNCHANGED <<storeVars, gwVars, lobbyVars, docVars, pc, local, calls,
                 viewVars, leaveVars, secondVars, prefResult, roomVars>>

NextStart ==
  \/ HandleStartSession
  \/ currentScreen = "lobby" /\ LockButton
  \/ StartSwiping

\* A client enters the lobby of a session that holds votes, locks its
\* preferences and starts swiping.
SpecStart == InitMerge /\ [][NextStart]_vars

\* ------------------------------------------------------------------ C34
\* Category c has a vote in the client's ledger.
HasVote(c) == \E o \in DOMAIN userVotes[c] : Len(userVotes[c][o]) > 0

\* Preferences as getMergedPreferences writes them: cuisine and vibe as the
\* words of the string.
AsMerged(prefs) ==
  [cuisine |-> Words(prefs.cuisine), budget |-> prefs.budget,
   vibe |-> Words(prefs.vibe), dietary |-> prefs.dietary,
   distance |-> prefs.distance]

\* C34: the preferences the swipe phase has been handed are, in every
\* category with at least one vote, the merge result of the vote ledger.
C34_SwipePhaseGetsMerged ==
  currentScreen = "swipe" =>
    \A c \in Categories :
      HasVote(c) =>
        AsMerged(appPreferences)[c] = getMergedPreferences(userVotes, selection)[c]


\* ------------------------------------------------- preference extraction
\* The analysis object of a response of the extraction service.
Analysis(cuisines, price, ambiance, dietaries) ==
  [cuisine_preferences |-> cuisines, price_range |-> price,
   ambiance_preferences |-> ambiance, dietary_requirements |-> dietaries]

\* The analyses the service answers with: listed values, synonyms, other
\* spellings and values outside the option lists.
Analyses ==
  { Analysis(<<"Italian">>, Null, Null, <<>>),
    Analysis(<<"sushi">>, "moderate", Null, <<>>),
    Analysis(<<"Greek">>, Null, Null, <<>>),
    Analysis(<<>>, "pricey", Null, <<>>),
    Analysis(<<>>, Null, "Rooftop", <<"Pescatarian">>),
    Analysis(<<"Chinese">>, Null, "cozy", <<"vegan">>) }

\* String.prototype.toLowerCase on the strings of Analyses.
toLowerCase(str) ==
  CASE str = "Italian" -> "italian"
    [] str = "Greek" -> "greek"
    [] str = "Chinese" -> "chinese"
    [] str = "Rooftop" -> "rooftop"
    [] str = "Pescatarian" -> "pescatarian"
    [] OTHER -> str

cuisineMap ==
  ("italian" :> "Italian") @@ ("japanese" :> "Japanese") @@
  ("mexican" :> "Mexican") @@ ("french" :> "French") @@ ("thai" :> "Thai") @@
  ("indian" :> "Indian") @@ ("korean" :> "Korean") @@ ("spanish" :> "Spanish") @@
  ("chinese" :> "Chinese") @@ ("sushi" :> "Japanese") @@ ("ramen" :> "Japanese") @@
  ("pasta" :> "Italian") @@ ("pizza" :> "Italian") @@ ("tacos" :> "Mexican") @@
  ("curry" :> "Indian")

priceMap ==
  ("budget" :> "$") @@ ("cheap" :> "$") @@ ("inexpensive" :> "$") @@
  ("moderate" :> "$$") @@ ("mid-range" :> "$$") @@ ("expensive" :> "$$$") @@
  ("upscale" :> "$$$") @@ ("luxury" :> "$$$$") @@ ("fine dining" :> "$$$$")

vibeMap ==
  ("casual" :> "Casual") @@ ("fine dining" :> "Fine Dining") @@
  ("trendy" :> "Trendy") @@ ("cozy" :> "Cozy") @@ ("lively" :> "Lively") @@
  ("romantic" :> "Romantic") @@ ("family-friendly" :> "Family-Friendly") @@
  ("family friendly" :> "Family-Friendly")

dietaryMap ==
  ("vegetarian" :> "Vegetarian") @@ ("vegan" :> "Vegan") @@
  ("gluten-free" :> "Gluten-Free") @@ ("gluten free" :> "Gluten-Free") @@
  ("halal" :> "Halal") @@ ("kosher" :> "Kosher")

\* map[key] || fallback
MapOr(map, key, fallback) ==
  IF key \in DOMAIN map THEN map[key] ELSE fallback

\* detectedPrefs of an analysis; a key that is not set is Undefined.
DetectedPrefs(analysis) ==
  [cuisine |->
     IF Len(analysis.cuisine_preferences) > 0
       THEN MapOr(cuisineMap, toLowerCase(analysis.cuisine_preferences[1]),
                  analysis.cuisine_preferences[1])
       ELSE Undefined,
   budget |->
     IF analysis.price_range # Null
       THEN MapOr(priceMap, toLowerCase(analysis.price_range), "$$")
       ELSE Undefined,
   vibe |->
     IF analysis.ambiance_preferences # Null
       THEN MapOr(vibeMap, toLowerCase(analysis.ambiance_preferences),
                  analysis.ambiance_preferences)
       ELSE Undefined,
   dietary |->
     IF Len(analysis.dietary_requirements) > 0
       THEN MapOr(dietaryMap, toLowerCase(analysis.dietary_requirements[1]),
                  analysis.dietary_requirements[1])
       ELSE Undefined]

\* The categories onPreferencesDetected looks at, in its order.
DetectedOrder == <<"cuisine", "budget", "vibe", "dietary">>

\* `AI suggested ${value} ${category}`
SuggestedMessage(c, value) ==
  <<"AI suggested", value, IF c = "dietary" THEN "dietary preference" ELSE c>>

\* The ledger after the castVote calls onPreferencesDetected makes for the
\* first n categories of DetectedOrder.
RECURSIVE VotesAfterDetected(_, _, _, _)
VotesAfterDetected(ledger, prefs, u, n) ==
  IF n = 0 THEN ledger
  ELSE LET before == VotesAfterDetected(ledger, prefs, u, n - 1)
           c == DetectedOrder[n]
       IN IF prefs[c] = Undefined THEN before
          ELSE [before EXCEPT ![c] =
                  AddNewVote(RemovePreviousVote(before[c], u), prefs[c], u)]

\* The "preference" entries those calls append to the activity log.
RECURSIVE LogAfterDetected(_, _, _, _)
LogAfterDetected(log, prefs, u, n) ==
  IF n = 0 THEN log
  ELSE LET before == LogAfterDetected(log, prefs, u, n - 1)
           c == DetectedOrder[n]
       IN IF prefs[c] = Undefined THEN before
          ELSE Append(before, [type |-> "preference", user |-> UserName(u),
                               message |-> <<"voted for", prefs[c], c>>])

\* The local list after the addActivity calls of onPreferencesDetected.
RECURSIVE LocalAfterDetected(_, _, _)
LocalAfterDetected(list, prefs, n) ==
  IF n = 0 THEN list
  ELSE LET before == LocalAfterDetected(list, prefs, n - 1)
           c == DetectedOrder[n]
       IN IF prefs[c] = Undefined THEN before
          ELSE Append(before, LocalActivity("preference", SuggestedMessage(c, prefs[c])))

\* apiService.analyzePreferences(userMessage) resolves with an analysis.
AnalyzePreferences(analysis) ==
  /\ prefResult = <<>>
  /\ calls[Viewer] < MaxCalls
  /\ prefResult' = << analysis >>
  /\ calls' = [calls EXCEPT ![Viewer] = @ + 1]
  /\ UNCHANGED <<storeVars, gwVars, lobbyVars, docVars, pc, local, viewVars,
                 leaveVars, secondVars, appPreferences, currentScreen, roomVars>>

\* The chat maps the analysis to detectedPrefs and, when a key is set, calls
\* onPreferencesDetected: per category setX(value), updateVote(category,
\* value), addActivity(...).  The castVote calls of updateVote are on
\* different categories of an existing session; they are run to their end
\* here, one after the other.
OnPreferencesDetected ==
  /\ prefResult # <<>>
  /\ exists
  /\ LET prefs == DetectedPrefs(prefResult[1])
         set == {c \in DOMAIN prefs : prefs[c] # Undefined}
     IN /\ selection' = [c \in DOMAIN selection |->
                           IF c \in set THEN prefs[c] ELSE selection[c]]
        /\ votes' = VotesAfterDetected(votes, prefs, Viewer, Len(DetectedOrder))
        /\ activities' = LogAfterDetected(activities, prefs, Viewer, Len(DetectedOrder))
        /\ localActivities' = LocalAfterDetected(localActivities, prefs, Len(DetectedOrder))
        /\ pushed' = IF set = {} THEN pushed
                     ELSE [pushed EXCEPT !.session = <<>>, !.activities = <<>>]
  /\ prefResult' = <<>>
  /\ UNCHANGED <<exists, ownerId, users, locked, swipes, sharedRestaurants,
                 userDocs, lastSwipe, gwVars, userVotes, merged, docVars, pc,
                 local, calls, localLocked, onlineUsers, leaveVars, secondVars,
                 appPreferences, currentScreen, roomVars>>

\* subscribeToSession's callback while the lobby's locked is false.
SessionPushUnlocked == ~locked /\ SessionPush

NextExtract ==
  \/ \E analysis \in Analyses : AnalyzePreferences(analysis)
  \/ OnPreferencesDetected
  \/ SessionPushUnlocked

\* A client in the lobby of a session chats; every message's analysis goes
\* through the extraction mapping and onPreferencesDetected.
SpecExtract == InitLobby /\ [][NextExtract]_vars

\* ------------------------------------------------------------------ C35
\* The value the service returned for category c, Undefined when none.
Returned(analysis, c) ==
  CASE c = "cuisine" ->
         IF Len(analysis.cuisine_preferences) > 0
           THEN analysis.cuisine_preferences[1] ELSE Undefined
    [] c = "budget" ->
         IF analysis.price_range # Null THEN analysis.price_range ELSE Undefined
    [] c = "vibe" ->
         IF analysis.ambiance_preferences # Null
           THEN analysis.ambiance_preferences ELSE Undefined
    [] OTHER ->
         IF Len(analysis.dietary_requirements) > 0
           THEN analysis.dietary_requirements[1] ELSE Undefined

\* x is an entry of the option list.
IsOption(options, x) == \E i \in 1..Len(options) : options[i] = x

\* C35: when the client processes an analysis, a returned value that is no
\* exact member of its category's option list leaves the category's votes in
\* the ledger, the client's selection in the category and the category's
\* merged preference as they were.
C35_UnlistedValueIsNoOpinion ==
  [][ (prefResult # <<>> /\ prefResult' = <<>>) =>
        \A c \in {"cuisine", "budget", "vibe", "dietary"} :
          LET returned == Returned(prefResult[1], c)
          IN (returned # Undefined /\ ~IsOption(OptionsOf(c), returned)) =>
               /\ votes'[c] = votes[c]
               /\ selection'[c] = selection[c]
               /\ getMergedPreferences(votes', selection')[c]
                    = getMergedPreferences(votes, selection)[c] ]_vars


\* ------------------------------------------------ a rejected castVote write
\* castVote's catch starts the write again.
CastVoteCatchRetries == "castUpdate"

\* castVote's catch: console.error('Error casting vote:', error); throw error.
\* The promise of castVote rejects and the caller's catch block runs.
CastVoteCatch == "updateVoteCatch"

\* The store rejects the updateDoc of castVote (the network, the rules, a
\* deleted document): nothing is written and castVote's catch block runs.
CastVoteUpdateRejects(u) ==
  /\ pc[u] = "castUpdate"
  /\ Goto(u, "castCatch", local[u])
  /\ UNCHANGED <<storeVars, gwVars, lobbyVars, docVars>>

\* castVote's catch block.
CastVoteThrow(u) ==
  /\ pc[u] = "castCatch"
  /\ Goto(u, CastVoteCatch, local[u])
  /\ UNCHANGED <<storeVars, gwVars, lobbyVars, docVars>>

\* updateVote's catch block: console.error('Failed to cast vote:', error),
\* and updateVote returns.
UpdateVoteCatch(u) ==
  /\ pc[u] = "updateVoteCatch"
  /\ Goto(u, "idle", NoLocal)
  /\ UNCHANGED <<storeVars, gwVars, lobbyVars, docVars>>

NextReject ==
  \/ \E in \in StepCastInputs, u \in StepUsers : CastVoteGetDoc(in[1], in[2], u)
  \/ \E u \in StepUsers : CastVoteUpdate(u)
  \/ \E u \in StepUsers : CastVoteUpdateRejects(u)
  \/ \E u \in StepUsers : CastVoteThrow(u)
  \/ \E u \in StepUsers : UpdateVoteCatch(u)
  \/ \E u \in StepUsers : CastVoteAddActivity(u)

\* The castVote calls of two clients on an existing session, each write of
\* which the store accepts or rejects.
SpecReject == InitVotes /\ [][NextReject]_vars

\* ------------------------------------------------------------------ C36
\* Client u takes a step of its call at position p.
StepsFrom(u, p) == pc[u] = p /\ pc'[u] # p

\* C36: when the store rejects the write of a castVote call, the rejection
\* leaves the vote ledger and the activity log as they were, castVote's
\* catch hands the error to the caller (it neither writes again nor goes on
\* to append the "preference" activity), and the caller's catch ends the
\* call; none of these steps writes to the ledger or the log.
C36_RejectedWriteGoesToCaller ==
  [][ \A u \in StepUsers :
        /\ (StepsFrom(u, "castUpdate") /\ pc'[u] = "castCatch") =>
             votes' = votes /\ activities' = activities
        /\ StepsFrom(u, "castCatch") =>
             pc'[u] = "updateVoteCatch" /\ votes' = votes /\ activities' = activities
        /\ StepsFrom(u, "updateVoteCatch") =>
             pc'[u] = "idle" /\ votes' = votes /\ activities' = activities ]_vars

\* A rejected write of alice has reached updateVote's catch while bob's vote
\* is stored.
C36_Witness ==
  /\ pc["alice"] = "updateVoteCatch"
  /\ "bob" \in VotersAt(votes, "budget", "$$")
  /\ "alice" \notin VotersAt(votes, local["alice"].category, local["alice"].value)


\* ------------------------------------------------------------------ C37
\* Entry i of the activity log records a castVote of user u in category c.
IsCastOf(i, u, c) ==
  /\ activities[i].type = "preference"
  /\ activities[i].user = UserName(u)
  /\ activities[i].message[3] = c

\* The place in the activity log of the latest castVote of user u in
\* category c, 0 when there is none.
LastCast(u, c) ==
  LET casts == {i \in 1..Len(activities) : IsCastOf(i, u, c)}
  IN IF casts = {} THEN 0 ELSE CHOOSE i \in casts : \A k \in casts : k <= i

Host == "alice"
OtherHost == "bob"

maxAttempts == 10

\* The texts handleHostSession sets as error.
AuthInProgress == "Authentication in progress. Please try again."
UnableToCreate == "Unable to create room. Please try again."
FailedToCreate == "Failed to create room. Please try again."

\* The loop goes round once more.
WhileOneMore(n) == n <= maxAttempts

\* while (attempts < maxAttempts)
While(n) == n < maxAttempts

\* handleHostSession up to its first await: without a uid the error is set
\* and the call returns; else setError(null), code = generateRoomCode(),
\* attempts = 0, and the first getDoc is awaited.
HostStart(uid) ==
  /\ hostPc = "idle"
  /\ IF uid = Null
       THEN /\ hostError' = AuthInProgress
            /\ UNCHANGED <<hostPc, hostCode, attempts, checked>>
       ELSE /\ hostError' = Null
            /\ \E code \in Codes : hostCode' = code
            /\ attempts' = 0
            /\ checked' = [c \in Codes |-> "unchecked"]
            /\ hostPc' = "getDoc"
  /\ UNCHANGED <<storeVars, gwVars, lobbyVars, docVars, pc, local, calls,
                 viewVars, leaveVars, secondVars, appVars, rooms, manifest, events,
                 roomSnap>>

\* roomSnap = await getDoc(roomRef).  Without a document the setDoc is
\* awaited next; with one, code = generateRoomCode(), attempts++, and the
\* loop either awaits the next getDoc or ends: setError('Unable to create
\* room. ...'), finally, return.
HostGetDoc ==
  /\ hostPc = "getDoc"
  /\ roomSnap' = (rooms[hostCode] # NoRoom)
  /\ checked' = [checked EXCEPT ![hostCode] =
                   IF rooms[hostCode] = NoRoom THEN "absent" ELSE "exists"]
  /\ IF ~roomSnap'
       THEN /\ hostPc' = "setDoc"
            /\ UNCHANGED <<hostCode, attempts, hostError>>
       ELSE /\ \E code \in Codes : hostCode' = code
            /\ attempts' = attempts + 1
            /\ IF While(attempts')
                 THEN hostPc' = "getDoc" /\ UNCHANGED hostError
                 ELSE hostPc' = "idle" /\ hostError' = UnableToCreate
  /\ UNCHANGED <<storeVars, gwVars, lobbyVars, docVars, pc, local, calls,
                 viewVars, leaveVars, secondVars, appVars, rooms, manifest, events>>

\* await setDoc(roomRef, {code, hostId: uid, ..., manifest, participants}):
\* the document under code is created, or replaced when there is one by now.
HostSetDoc ==
  /\ hostPc = "setDoc"
  /\ rooms' = [rooms EXCEPT ![hostCode] = Host]
  /\ hostPc' = "addDoc"
  /\ UNCHANGED <<storeVars, gwVars, lobbyVars, docVars, pc, local, calls,
                 viewVars, leaveVars, secondVars, appVars, manifest, events, hostCode,
                 attempts, roomSnap, checked, hostError>>

\* await addDoc(eventsRef, ...) into the events of the new room (a collection
\* the model does not hold), setDisplayName, router.push, return.
HostAddDoc ==
  /\ hostPc = "addDoc"
  /\ hostPc' = "idle"
  /\ UNCHANGED <<storeVars, gwVars, lobbyVars, docVars, pc, local, calls,
                 viewVars, leaveVars, secondVars, appVars, rooms, manifest, events,
                 hostCode, attempts, roomSnap, checked, hostError>>

\* The store rejects the request the call awaits: the catch block sets
\* 'Failed to create room. ...', finally, return.
HostRejected ==
  /\ hostPc \in {"getDoc", "setDoc", "addDoc"}
  /\ hostPc' = "idle"
  /\ hostError' = FailedToCreate
  /\ UNCHANGED <<storeVars, gwVars, lobbyVars, docVars, pc, local, calls,
                 viewVars, leaveVars, secondVars, appVars, rooms, manifest, events,
                 hostCode, attempts, roomSnap, checked>>

\* Another user's handleHostSession creates a room under a free code.
OtherHostCreates(code) ==
  /\ rooms[code] = NoRoom
  /\ rooms' = [rooms EXCEPT ![code] = OtherHost]
  /\ UNCHANGED <<storeVars, gwVars, lobbyVars, docVars, pc, local, calls,
                 viewVars, leaveVars, secondVars, appVars, manifest, events, hostPc,
                 hostCode, attempts, roomSnap, checked, hostError>>

\* The steps of a running handleHostSession call.
HostStep == HostGetDoc \/ HostSetDoc \/ HostAddDoc \/ HostRejected

NextHost ==
  \/ \E uid \in {Null, Host} : HostStart(uid)
  \/ HostGetDoc
  \/ HostSetDoc
  \/ HostAddDoc
  \/ HostRejected
  \/ \E code \in Codes : OtherHostCreates(code)

\* A user hosts rooms while another user creates rooms too.
SpecHost == Init /\ [][NextHost]_vars

\* Every request the call awaits is answered: it resolves or rejects.
FairHost == SpecHost /\ WF_vars(HostStep)

\* ------------------------------------------------------------------ C38
\* This step is the setDoc of the call.
IsHostWrite == hostPc = "setDoc" /\ hostPc' = "addDoc"

\* C38: a handleHostSession call makes at most 10 existence checks and ends;
\* it writes a room only in its setDoc step, under the code it has just
\* checked and found without a document, and under no code a check of the
\* call found to exist; when the 10th check collides too the call ends with
\* the error "Unable to create room. Please try again." and has found no
\* free code, so it has created nothing.
C38_HostSessionBounded ==
  /\ [][ /\ attempts' <= maxAttempts
         /\ (hostPc' = "getDoc" => attempts' < maxAttempts)
         /\ (\E c \in Codes : rooms'[c] = Host /\ rooms[c] # Host) => IsHostWrite
         /\ IsHostWrite =>
              /\ rooms'[hostCode] = Host
              /\ ~roomSnap
              /\ checked[hostCode] = "absent"
              /\ \A c \in Codes \ {hostCode} : rooms'[c] = rooms[c]
         /\ (hostPc = "getDoc" /\ attempts' = maxAttempts) =>
              /\ hostPc' = "idle"
              /\ hostError' = UnableToCreate
              /\ rooms' = rooms
              /\ \A c \in Codes : checked'[c] # "absent" ]_vars
  /\ (hostPc # "idle") ~> (hostPc = "idle")

\* The 10th check has collided and the call has ended with the error.
C38_Witness ==
  /\ hostPc = "idle"
  /\ attempts = maxAttempts
  /\ hostError = UnableToCreate
  /\ \A c \in Codes : rooms[c] = OtherHost


\* ----------------------------------------------------- executeToolCalls
\* The participants whose clients execute tool calls, the values the
\* strategist proposes or locks, and the reason of a proposal.
Participants == {"alice", "bob"}
SlotValues == {"Thai", "Sushi"}
ProposalReason == "Great for sharing"

\* The most documents the events collection gets.
MaxEvents == 2

\* target.charAt(0).toUpperCase() + target.slice(1)
Capitalize(target) ==
  CASE target = "budget" -> "Budget"
    [] target = "cuisine" -> "Cuisine"
    [] OTHER -> "Vibe"

\* updateDoc(roomRef, {[`manifest.${target}.value`]: value})
ProposedValue(slot, value) == [slot EXCEPT !.value = value]

\* updateDoc(roomRef, {[`manifest.${target}.value`]: value,
\*                     [`manifest.${target}.locked`]: true})
LockedValue(slot, value) == [value |-> value, locked |-> TRUE]

\* A propose_update call of the list executeToolCalls walks through: the
\* 'proposal' event and the update of the slot's value.
ProposeUpdate(target, value, reason, u) ==
  /\ Len(events) < MaxEvents
  /\ events' = Append(events,
       [type |-> "proposal", category |-> target, value |-> value,
        text |-> <<reason>>, authorName |-> UserName(u)])
  /\ manifest' = [manifest EXCEPT ![target] = ProposedValue(@, value)]
  /\ UNCHANGED <<storeVars, gwVars, lobbyVars, docVars, pc, local, calls,
                 viewVars, leaveVars, secondVars, appVars, rooms, hostPc,
                 hostCode, attempts, roomSnap, checked, hostError>>

\* A lock_slot call of the list: the update of the slot's value and locked
\* flag and the 'lock' event.
LockSlot(target, value, u) ==
  /\ Len(events) < MaxEvents
  /\ manifest' = [manifest EXCEPT ![target] = LockedValue(@, value)]
  /\ events' = Append(events,
       [type |-> "lock", category |-> target, value |-> value,
        text |-> <<Capitalize(target), "locked:", value>>,
        authorName |-> UserName(u)])
  /\ UNCHANGED <<storeVars, gwVars, lobbyVars, docVars, pc, local, calls,
                 viewVars, leaveVars, secondVars, appVars, rooms, hostPc,
                 hostCode, attempts, roomSnap, checked, hostError>>

NextManifest ==
  \/ \E target \in Slots, value \in SlotValues, u \in Participants :
       ProposeUpdate(target, value, ProposalReason, u)
  \/ \E target \in Slots, value \in SlotValues, u \in Participants :
       LockSlot(target, value, u)

\* The clients of two participants of a room execute the tool calls their
\* strategists return, in any order.
SpecManifest == Init /\ [][NextManifest]_vars

\* ------------------------------------------------------------------ C39
\* C39: a slot of the manifest that is locked stays locked and keeps its
\* value in every later step.
C39_LockedSlotIsFinal ==
  [][ \A s \in Slots : manifest[s].locked => manifest'[s] = manifest[s] ]_vars

====
